---- MODULE Spec2Model ----
(***************************************************************************)
(* Model of the ZhiShouHu backend: the rule-based anomaly detector          *)
(* (services/anomaly_detector.py), the realtime-status endpoint             *)
(* (api/health_records.py), the baseline learner (api/baseline.py), the     *)
(* text-enrichment service (services/llm_service.py), the settings and      *)
(* safe-zone endpoints that write the rows the detector reads, and the      *)
(* emergency-contact endpoints (api/contacts.py).                           *)
(*                                                                          *)
(* Number representation (Python floats have no TLA+ counterpart):          *)
(*   - heart-rate limits are kept in TENTHS of a beat per minute: settings  *)
(*     hold integers, the learner stores mean +/- 2*std of values rounded   *)
(*     to one decimal, so every limit is a multiple of 0.1;                 *)
(*   - confidence_score is kept in HUNDREDTHS (0.3 is 30);                  *)
(*   - deviation_percent is kept in TENTHS of a percent;                    *)
(*   - latitude and longitude are offsets from (30.27 N, 120.15 E) in units *)
(*     of 0.0001 degree, distances are in decimetres.                       *)
(* Strings of the source written in Chinese are given ASCII tags.           *)
(***************************************************************************)
EXTENDS Integers, Sequences, FiniteSets, TLC

VARIABLES
    profiles,   \* HealthProfile table: user_id -> row or None (user_id is unique)
    settings,   \* UserSettings table: user_id -> row or None (user_id is unique)
    zones,      \* SafeZone table: user_id -> sequence of rows, in insertion order
    pc,         \* "idle", or "done" while a handler's response is being returned
    last,       \* the request just handled and its response
    runs,       \* learn requests in progress: run id -> where the handler stands
    profile_rows, \* HealthProfile table: user_id -> number of rows with that user_id
    contacts    \* EmergencyContact table: the set of its rows

vars == <<profiles, settings, zones, pc, last, runs, profile_rows, contacts>>
store == <<profiles, settings, zones>>
learner == <<runs, profile_rows>>

\* Python's None: no row, no value
None == [kind |-> "None"]
Users == {1, 2}

---------------------------------------------------------------------------
(* Program constants                                                       *)

HEART_RATE_HIGH == 100
HEART_RATE_LOW == 50
BP_SYSTOLIC_HIGH == 140
BP_SYSTOLIC_LOW == 90
BP_DIASTOLIC_HIGH == 90
MIN_LEARNING_RECORDS == 10

\* severity_scores of comprehensive_analysis; .get(x, 0) for anything else
severity_scores(sev) ==
    CASE sev = "normal" -> 0
      [] sev = "low" -> 1
      [] sev = "medium" -> 2
      [] sev = "warning" -> 3
      [] sev = "high" -> 4
      [] OTHER -> 0

\* overall_risk labels and the labels of the enrichment reply
RISK_DI == "di"         \* low
RISK_ZHONG == "zhong"   \* medium
RISK_GAO == "gao"       \* high
RISK_JINJI == "jinji"   \* urgent

UNKNOWN_AREA == "unknown_area"

\* SAFE_ZONES, the default zone list
SAFE_ZONES ==
    << [name |-> "home",     lat |-> 41, lng |-> 51,  radius |-> 200],
       [name |-> "park",     lat |-> 61, lng |-> 81,  radius |-> 300],
       [name |-> "market",   lat |-> 21, lng |-> 31,  radius |-> 200],
       [name |-> "hospital", lat |-> 1,  lng |-> 101, radius |-> 200] >>

---------------------------------------------------------------------------
(* Arithmetic helpers                                                      *)

Abs(x) == IF x < 0 THEN -x ELSE x
Max2(a, b) == IF a >= b THEN a ELSE b
Min2(a, b) == IF a <= b THEN a ELSE b

\* round(n/d) to the nearest integer, ties to even, for d > 0 and n >= 0
RoundDiv(n, d) ==
    LET q == n \div d
        r == n % d
    IN  IF 2 * r > d \/ (2 * r = d /\ q % 2 = 1) THEN q + 1 ELSE q

\* round(x/y*100, 1) in tenths of a percent, for any sign of x and y # 0
RoundPercent10(x, y) ==
    LET n == Abs(x) * 1000
        d == Abs(y)
        m == RoundDiv(n, d)
    IN  IF (x < 0) = (y < 0) THEN m ELSE -m

---------------------------------------------------------------------------
(* Geofence evaluator                                                      *)

\* Squared great-circle distance in dm^2.  At these distances (under 3 km at
\* latitude 30.27) the haversine formula with R = 6371000 gives 11.12 m per
\* 0.0001 degree of latitude and 9.60 m per 0.0001 degree of longitude.
haversine_distance_sq(lat1, lng1, lat2, lng2) ==
    LET dy == (lat2 - lat1) * 111
        dx == (lng2 - lng1) * 96
    IN  dy * dy + dx * dx

InZone(lat, lng, zone) ==
    haversine_distance_sq(lat, lng, zone.lat, zone.lng)
        <= (zone.radius * 10) * (zone.radius * 10)

\* safe_zones or SAFE_ZONES: an empty list is falsy
ZonesOrDefault(safe_zones) == IF safe_zones = <<>> THEN SAFE_ZONES ELSE safe_zones

RECURSIVE FirstZoneName(_, _, _, _)
FirstZoneName(lat, lng, zs, i) ==
    IF i > Len(zs) THEN UNKNOWN_AREA
    ELSE IF InZone(lat, lng, zs[i]) THEN zs[i].name
    ELSE FirstZoneName(lat, lng, zs, i + 1)

get_location_name(lat, lng, safe_zones) ==
    FirstZoneName(lat, lng, ZonesOrDefault(safe_zones), 1)

\* Mutant: only the first zone of the list is tried
is_in_safe_zone_FirstOnly(lat, lng, safe_zones) ==
    LET zs == ZonesOrDefault(safe_zones)
    IN  InZone(lat, lng, zs[1])

is_in_safe_zone(lat, lng, safe_zones) ==
    LET zs == ZonesOrDefault(safe_zones)
    IN  \E i \in 1..Len(zs) : InZone(lat, lng, zs[i])

---------------------------------------------------------------------------
(* AnomalyDetector: the three lookups.  `failed` says that the data store   *)
(* raised inside the lookup's try block.  Raised marks an exception that     *)
(* leaves a function; a caller that meets it raises too.                     *)

Raised == [kind |-> "Raised"]

\* The lookup sites of one comprehensive_analysis call, in call order
LookupSites == {"hr_profile", "hr_settings", "bp_settings", "zones", "ctx_profile"}

EmptyCache == [u \in Users |-> None]

\* Returns the profile and the detector's _profile_cache after the call.
\* A cache entry of None stands for "user_id not in self._profile_cache".
_get_health_profile(user_id, cache, failed) ==
    IF cache[user_id] # None
    THEN [profile |-> cache[user_id], cache |-> cache]
    ELSE IF failed
    THEN [profile |-> None, cache |-> cache]
    ELSE [profile |-> profiles[user_id],
          cache |-> [cache EXCEPT ![user_id] = profiles[user_id]]]

\* Mutant: the store's exception leaves the lookup
_get_user_settings_Propagating(user_id, failed) ==
    IF failed THEN Raised ELSE settings[user_id]

_get_user_settings(user_id, failed) ==
    IF failed THEN None ELSE settings[user_id]

ZoneDict(z) == [name |-> z.zone_name, lat |-> z.latitude,
                lng |-> z.longitude, radius |-> z.radius]

RECURSIVE ActiveZones(_)
ActiveZones(rows) ==
    IF rows = <<>> THEN <<>>
    ELSE IF Head(rows).is_active
         THEN <<ZoneDict(Head(rows))>> \o ActiveZones(Tail(rows))
         ELSE ActiveZones(Tail(rows))

_get_safe_zones(user_id, failed) ==
    IF failed THEN SAFE_ZONES
    ELSE IF ActiveZones(zones[user_id]) = <<>> THEN SAFE_ZONES
    ELSE ActiveZones(zones[user_id])

---------------------------------------------------------------------------
(* AnomalyDetector: the four analyzers                                     *)

RaisedResult ==
    [raised |-> TRUE, is_anomaly |-> FALSE, severity |-> "normal",
     message |-> "raised"]

\* Mutant: a confidence of exactly 0.3 is trusted
ProfileTrusted_Inclusive(profile) == profile # None /\ profile.confidence_score >= 30

\* profile and profile.confidence_score > 0.3
ProfileTrusted(profile) == profile # None /\ profile.confidence_score > 30

\* The limits analyze_heart_rate resolves (tenths of bpm) and where from
HeartRateLimits(user_id, cache, fail) ==
    LET profile == _get_health_profile(user_id, cache, "hr_profile" \in fail).profile
        row == _get_user_settings(user_id, "hr_settings" \in fail)
    IN  IF profile = Raised THEN Raised
        ELSE IF ProfileTrusted(profile)
        THEN [hr_high |-> profile.learned_hr_high,
              hr_low |-> profile.learned_hr_low,
              using_ai_baseline |-> TRUE]
        ELSE IF row = Raised THEN Raised
        ELSE IF row # None
        THEN [hr_high |-> row.heart_rate_threshold_high * 10,
              hr_low |-> row.heart_rate_threshold_low * 10,
              using_ai_baseline |-> FALSE]
        ELSE [hr_high |-> HEART_RATE_HIGH * 10,
              hr_low |-> HEART_RATE_LOW * 10,
              using_ai_baseline |-> FALSE]

\* Mutant: the upper limit itself counts as above
HeartRateAbove_Inclusive(heart_rate, hr_high) == heart_rate * 10 >= hr_high

\* heart_rate > hr_high, with hr_high in tenths
HeartRateAbove(heart_rate, hr_high) == heart_rate * 10 > hr_high

\* Mutant: the gap is measured in bpm, not in percent of the limit
HighSideSeverity_AbsoluteGap(heart_rate, hr_high) ==
    IF heart_rate * 10 - hr_high > 20 * 10 THEN "high" ELSE "warning"

\* Mutant: a heart rate less than 5 percent above the limit is of severity low
HighSideSeverity_LowWhenSlight(heart_rate, hr_high) ==
    IF hr_high > 0 /\ (heart_rate * 10 - hr_high) * 100 > 20 * hr_high
    THEN "high"
    ELSE IF (heart_rate * 10 - hr_high) * 100 < 5 * hr_high THEN "low"
    ELSE "warning"

\* "high" if deviation > 20 else "warning", deviation = (hr - high)/high*100
HighSideSeverity(heart_rate, hr_high) ==
    IF hr_high > 0 /\ (heart_rate * 10 - hr_high) * 100 > 20 * hr_high
    THEN "high" ELSE "warning"

analyze_heart_rate(heart_rate, user_id, cache, fail) ==
    LET lim == HeartRateLimits(user_id, cache, fail)
    IN  IF lim = Raised THEN RaisedResult @@ [using_ai_baseline |-> FALSE,
                                                  hr_low |-> 0, hr_high |-> 0]
        ELSE LET base == [raised |-> FALSE, is_anomaly |-> FALSE,
                          severity |-> "normal", message |-> "hr_normal",
                          using_ai_baseline |-> lim.using_ai_baseline,
                          hr_low |-> lim.hr_low, hr_high |-> lim.hr_high]
             IN  IF HeartRateAbove(heart_rate, lim.hr_high)
                 THEN IF lim.hr_high = 0
                      THEN [base EXCEPT !.raised = TRUE, !.message = "raised"]
                      ELSE [base EXCEPT
                              !.is_anomaly = TRUE,
                              !.severity = HighSideSeverity(heart_rate, lim.hr_high),
                              !.message = IF lim.using_ai_baseline
                                          THEN "hr_above_personal_baseline"
                                          ELSE "hr_high"]
                           @@ [deviation_percent |->
                                  RoundPercent10(heart_rate * 10 - lim.hr_high, lim.hr_high)]
                 ELSE IF heart_rate * 10 < lim.hr_low
                 THEN [base EXCEPT
                         !.is_anomaly = TRUE,
                         !.severity = "medium",
                         !.message = IF lim.using_ai_baseline
                                     THEN "hr_below_personal_baseline"
                                     ELSE "hr_low"]
                      @@ [deviation_percent |->
                             RoundPercent10(lim.hr_low - heart_rate * 10, lim.hr_low)]
                 ELSE base

\* Mutant: a trusted profile's learned systolic mean sets the systolic limits
BloodPressureLimits_Learned(user_id, fail) ==
    IF ProfileTrusted(profiles[user_id])
    THEN [bp_sys_high |-> profiles[user_id].learned_systolic_mean \div 10 + 20,
          bp_sys_low |-> profiles[user_id].learned_systolic_mean \div 10 - 20,
          bp_dia_high |-> profiles[user_id].learned_diastolic_mean \div 10 + 10]
    ELSE [bp_sys_high |-> BP_SYSTOLIC_HIGH,
          bp_sys_low |-> BP_SYSTOLIC_LOW,
          bp_dia_high |-> BP_DIASTOLIC_HIGH]

\* The limits analyze_blood_pressure resolves (mmHg)
BloodPressureLimits(user_id, fail) ==
    LET row == _get_user_settings(user_id, "bp_settings" \in fail)
    IN  IF row = Raised THEN Raised
        ELSE IF row # None
        THEN [bp_sys_high |-> row.systolic_bp_threshold_high,
              bp_sys_low |-> row.systolic_bp_threshold_low,
              bp_dia_high |-> BP_DIASTOLIC_HIGH]
        ELSE [bp_sys_high |-> BP_SYSTOLIC_HIGH,
              bp_sys_low |-> BP_SYSTOLIC_LOW,
              bp_dia_high |-> BP_DIASTOLIC_HIGH]

\* Mutant: only the systolic limit is looked at
BpHigh_SystolicOnly(systolic, diastolic, lim) == systolic > lim.bp_sys_high

\* systolic > bp_sys_high or diastolic > bp_dia_high
BpHigh(systolic, diastolic, lim) ==
    systolic > lim.bp_sys_high \/ diastolic > lim.bp_dia_high

analyze_blood_pressure(systolic, diastolic, user_id, fail) ==
    LET lim == BloodPressureLimits(user_id, fail)
    IN  IF lim = Raised THEN RaisedResult @@ [bp_sys_high |-> 0, bp_sys_low |-> 0,
                                              bp_dia_high |-> 0]
        ELSE LET base == [raised |-> FALSE, is_anomaly |-> FALSE,
                          severity |-> "normal", message |-> "bp_normal",
                          bp_sys_high |-> lim.bp_sys_high,
                          bp_sys_low |-> lim.bp_sys_low,
                          bp_dia_high |-> lim.bp_dia_high]
             IN  IF BpHigh(systolic, diastolic, lim)
                 THEN [base EXCEPT !.is_anomaly = TRUE,
                                   !.severity = IF systolic > 160 THEN "high" ELSE "warning",
                                   !.message = "bp_high"]
                 ELSE IF systolic < lim.bp_sys_low
                 THEN [base EXCEPT !.is_anomaly = TRUE,
                                   !.severity = "warning",
                                   !.message = "bp_low"]
                 ELSE base

analyze_location(lat, lng, user_id, fail) ==
    LET safe_zones == _get_safe_zones(user_id, "zones" \in fail)
    IN  IF ~is_in_safe_zone(lat, lng, safe_zones)
        THEN [raised |-> FALSE, is_anomaly |-> TRUE, severity |-> "high",
              location_name |-> UNKNOWN_AREA, message |-> "location_deviation",
              safe_zones |-> safe_zones]
        ELSE [raised |-> FALSE, is_anomaly |-> FALSE, severity |-> "normal",
              location_name |-> get_location_name(lat, lng, safe_zones),
              message |-> "location_normal", safe_zones |-> safe_zones]

\* Mutant: six o'clock still belongs to the night
NightBand_ThroughSix(current_hour) == current_hour >= 22 \/ current_hour <= 6

\* Night time: current_hour >= 22 or current_hour < 6
NightBand(current_hour) == current_hour >= 22 \/ current_hour < 6

\* Mutant: the morning label is written only when the heart rate is fine
MorningBranch_LabelWhenNormal(base, heart_rate) ==
    IF heart_rate > 120
    THEN [base EXCEPT !.is_anomaly = TRUE, !.severity = "warning",
                      !.message = "morning_hr_too_high"]
    ELSE [base EXCEPT !.activity = "morning_exercise"]

\* The branch 7 <= current_hour <= 9: the label, then the heart-rate test
MorningBranch(base, heart_rate) ==
    IF heart_rate > 120
    THEN [base EXCEPT !.activity = "morning_exercise",
                      !.is_anomaly = TRUE, !.severity = "warning",
                      !.message = "morning_hr_too_high"]
    ELSE [base EXCEPT !.activity = "morning_exercise"]

analyze_activity_pattern(current_hour, heart_rate, steps) ==
    LET base == [raised |-> FALSE, is_anomaly |-> FALSE, severity |-> "normal",
                 activity |-> "normal_activity", message |-> "activity_normal"]
    IN  IF NightBand(current_hour)
        THEN IF heart_rate > 85 \/ steps > 100
             THEN [base EXCEPT !.is_anomaly = TRUE, !.severity = "warning",
                               !.activity = "night_abnormal_activity",
                               !.message = "night_activity"]
             ELSE base
        ELSE IF 7 <= current_hour /\ current_hour <= 9
        THEN MorningBranch(base, heart_rate)
        ELSE IF 12 <= current_hour /\ current_hour <= 14
        THEN IF heart_rate > 100 /\ steps > 500
             THEN [base EXCEPT !.activity = "midday_rest",
                               !.is_anomaly = TRUE, !.severity = "medium",
                               !.message = "midday_high_activity"]
             ELSE [base EXCEPT !.activity = "midday_rest"]
        ELSE base

---------------------------------------------------------------------------
(* AnomalyDetector: baseline context and the risk aggregator               *)

get_baseline_context(user_id, cache, fail) ==
    LET profile == _get_health_profile(user_id, cache, "ctx_profile" \in fail).profile
    IN  IF profile = None
        THEN [has_profile |-> FALSE,
              learned_hr_low |-> HEART_RATE_LOW * 10,
              learned_hr_high |-> HEART_RATE_HIGH * 10,
              confidence_score |-> 0]
        ELSE [has_profile |-> TRUE,
              learned_hr_low |-> profile.learned_hr_low,
              learned_hr_high |-> profile.learned_hr_high,
              confidence_score |-> profile.confidence_score]

Max4(a, b, c, d) == Max2(Max2(a, b), Max2(c, d))
Count(b) == IF b THEN 1 ELSE 0

\* Mutant: the anomaly count does not raise the status
OverallVerdict_SeverityOnly(max_severity, anomaly_count) ==
    IF max_severity >= 4
    THEN [overall_status |-> "danger", overall_risk |-> RISK_GAO]
    ELSE IF max_severity >= 2
    THEN [overall_status |-> "warning", overall_risk |-> RISK_ZHONG]
    ELSE [overall_status |-> "safe", overall_risk |-> RISK_DI]

\* "Determine overall status": overall_status and overall_risk
OverallVerdict(max_severity, anomaly_count) ==
    IF max_severity >= 4 \/ anomaly_count >= 2
    THEN [overall_status |-> "danger", overall_risk |-> RISK_GAO]
    ELSE IF max_severity >= 2
    THEN [overall_status |-> "warning", overall_risk |-> RISK_ZHONG]
    ELSE [overall_status |-> "safe", overall_risk |-> RISK_DI]

\* Mutant: every analyzer's message is appended
MsgIf_Always(r) == <<r.message>>

\* if result["is_anomaly"]: messages.append(result["message"])
MsgIf(r) == IF r.is_anomaly THEN <<r.message>> ELSE <<>>

\* Mutant: no second look at the status when no vital-sign message was added
SummaryMessages_NoDoubleCheck(hr_result, bp_result, loc_result, activity_result, overall_status) ==
    LET messages == MsgIf(hr_result) \o MsgIf(bp_result) \o MsgIf(loc_result)
    IN  IF messages # <<>> THEN messages
        ELSE IF activity_result.activity = "morning_exercise"
        THEN <<"reassure_morning_exercise">>
        ELSE IF activity_result.activity = "midday_rest"
        THEN <<"reassure_midday_rest">>
        ELSE <<"reassure_generic">>

\* "Build comprehensive message": the list `messages` before " ".join.
\* Every message is a non-empty string without a leading or trailing space,
\* so the joined string is empty iff the list is, and the list can be read
\* back from it.
SummaryMessages(hr_result, bp_result, loc_result, activity_result, overall_status) ==
    LET messages == MsgIf(hr_result) \o MsgIf(bp_result)
                    \o MsgIf(loc_result) \o MsgIf(activity_result)
    IN  IF messages # <<>> THEN messages
        ELSE IF overall_status # "safe"
        THEN IF overall_status = "danger"
             THEN <<"generic_high_risk">>
             ELSE <<"generic_mild_concern">>
        ELSE IF activity_result.activity = "morning_exercise"
        THEN <<"reassure_morning_exercise">>
        ELSE IF activity_result.activity = "midday_rest"
        THEN <<"reassure_midday_rest">>
        ELSE <<"reassure_generic">>

\* The detector's _profile_cache after comprehensive_analysis(record)
CacheAfterAnalysis(record, cache, fail) ==
    LET c1 == _get_health_profile(record.user_id, cache, "hr_profile" \in fail).cache
    IN  _get_health_profile(record.user_id, c1, "ctx_profile" \in fail).cache

\* comprehensive_analysis from the heart-rate analyzer's return on: hr_result
\* is that analyzer's result and cache1 the detector's _profile_cache then
AnalysisFrom(record, hr_result, cache1, fail) ==
    LET bp_result == analyze_blood_pressure(record.systolic_bp, record.diastolic_bp,
                                            record.user_id, fail)
        loc_result == analyze_location(record.latitude, record.longitude,
                                       record.user_id, fail)
        activity_result == analyze_activity_pattern(record.hour, record.heart_rate,
                                                    record.steps)
        baseline_context == get_baseline_context(record.user_id, cache1, fail)
        max_severity == Max4(severity_scores(hr_result.severity),
                             severity_scores(bp_result.severity),
                             severity_scores(loc_result.severity),
                             severity_scores(activity_result.severity))
        anomaly_count == Count(hr_result.is_anomaly) + Count(bp_result.is_anomaly)
                         + Count(loc_result.is_anomaly) + Count(activity_result.is_anomaly)
        verdict == OverallVerdict(max_severity, anomaly_count)
    IN  IF hr_result.raised \/ bp_result.raised
        THEN [raised |-> TRUE]
        ELSE [raised |-> FALSE,
              overall_status |-> verdict.overall_status,
              overall_risk |-> verdict.overall_risk,
              anomaly_count |-> anomaly_count,
              heart_rate_analysis |-> hr_result,
              blood_pressure_analysis |-> bp_result,
              location_analysis |-> loc_result,
              activity_analysis |-> activity_result,
              summary_message |-> SummaryMessages(hr_result, bp_result, loc_result,
                                                  activity_result, verdict.overall_status),
              baseline_context |-> baseline_context,
              using_ai_baseline |-> hr_result.using_ai_baseline]

\* The whole call with no write to the store in between
comprehensive_analysis(record, cache, fail) ==
    AnalysisFrom(record,
                 analyze_heart_rate(record.heart_rate, record.user_id, cache, fail),
                 _get_health_profile(record.user_id, cache, "hr_profile" \in fail).cache,
                 fail)

---------------------------------------------------------------------------
(* LLMService.  `llm` is what the enrichment collaborator does on this call: *)
(*   [kind |-> "no_client"]            self.client is None                   *)
(*   [kind |-> "error"]                the call raises or times out, the     *)
(*                                     reply has no content, or json.loads   *)
(*                                     raises on it                          *)
(*   [kind |-> "reply", reply |-> d]   json.loads gave the dict d; a key of  *)
(*                                     the JSON object is a field of d       *)

Get(d, key, default) == IF key \in DOMAIN d THEN d[key] ELSE default

\* _mock_multi_dimension_analysis; Raised is the ZeroDivisionError of `deviation`
_mock_multi_dimension_analysis(current_data, baseline) ==
    LET hr == current_data.heart_rate
        hr_high == baseline.learned_hr_high
        hr_low == baseline.learned_hr_low
    IN  IF hr * 10 > hr_high
        THEN IF hr_high = 0 THEN Raised
             ELSE IF current_data.location = UNKNOWN_AREA
             THEN [risk_level |-> RISK_GAO, explanation |-> <<"mock_hr_high_and_location">>]
             ELSE [risk_level |-> RISK_ZHONG, explanation |-> <<"mock_hr_high">>]
        ELSE IF hr * 10 < hr_low
        THEN [risk_level |-> RISK_ZHONG, explanation |-> <<"mock_hr_low">>]
        ELSE [risk_level |-> RISK_DI, explanation |-> <<"mock_all_normal">>]

multi_dimension_analysis(current_data, baseline, llm) ==
    IF llm.kind = "reply" THEN llm.reply
    ELSE _mock_multi_dimension_analysis(current_data, baseline)

\* risk_map.get(risk_level, current)
risk_map(risk_level, current) ==
    IF risk_level \in {RISK_DI, RISK_ZHONG, RISK_GAO} THEN risk_level
    ELSE IF risk_level = RISK_JINJI THEN RISK_GAO
    ELSE current

---------------------------------------------------------------------------
(* GET /realtime-status/{elder_id}                                         *)

NoRecord == [kind |-> "NoRecord"]

\* The part of get_realtime_status after the analysis: the enrichment call,
\* build_health_response and the two overrides
StatusResponse(record, analysis, llm) ==
    LET current_data == [heart_rate |-> record.heart_rate,
                         location |-> analysis.location_analysis.location_name]
        ai_analysis == multi_dimension_analysis(current_data, analysis.baseline_context, llm)
        explanation == Get(ai_analysis, "explanation", <<>>)
        risk_level == Get(ai_analysis, "risk_level", "")
    IN  IF ai_analysis = Raised THEN [raised |-> TRUE]
        ELSE [raised |-> FALSE,
              status |-> analysis.overall_status,
              riskLevel |-> IF analysis.anomaly_count > 0 /\ risk_level # ""
                            THEN risk_map(risk_level, analysis.overall_risk)
                            ELSE analysis.overall_risk,
              message |-> IF explanation # <<>> THEN explanation
                          ELSE analysis.summary_message,
              location |-> analysis.location_analysis.location_name]

\* `record` is the subject's latest HealthRecord, or NoRecord; `analysis` is
\* detector.comprehensive_analysis(record, historical) of a new detector
get_realtime_status(record, analysis, llm) ==
    IF record = NoRecord
    THEN [raised |-> FALSE, status |-> "safe", riskLevel |-> RISK_DI,
          message |-> <<"initializing">>, location |-> "home"]
    ELSE IF analysis.raised THEN [raised |-> TRUE]
    ELSE StatusResponse(record, analysis, llm)

---------------------------------------------------------------------------
(* Baseline learner: POST /baseline/learn                                  *)
(* The window is given by the statistics _calculate_records_summary takes   *)
(* from it: total_records, hr_mean and hr_std (tenths of bpm, both rounded  *)
(* to one decimal by the code), systolic_mean and diastolic_mean (tenths).  *)

MaxRuns == 2
RunIds == 1..MaxRuns
IdleRun == [phase |-> "idle"]

\* Mutant: the fallback is no surer than the trust threshold
_mock_baseline_analysis_Unsure(records_summary) ==
    [learned_hr_low |-> Max2(50 * 10, records_summary.hr_mean - 2 * records_summary.hr_std),
     learned_hr_high |-> Min2(120 * 10, records_summary.hr_mean + 2 * records_summary.hr_std),
     resting_hr |-> records_summary.hr_mean - 5 * 10,
     confidence_score |-> 30]

_mock_baseline_analysis(records_summary) ==
    [learned_hr_low |-> Max2(50 * 10, records_summary.hr_mean - 2 * records_summary.hr_std),
     learned_hr_high |-> Min2(120 * 10, records_summary.hr_mean + 2 * records_summary.hr_std),
     resting_hr |-> records_summary.hr_mean - 5 * 10,
     confidence_score |-> 50]

analyze_personal_baseline(records_summary, llm) ==
    IF llm.kind = "reply" THEN llm.reply
    ELSE _mock_baseline_analysis(records_summary)

\* HealthProfile(user_id=...): the column defaults of a new row
NewProfile ==
    [learned_hr_low |-> 60 * 10, learned_hr_high |-> 100 * 10,
     learned_hr_mean |-> 72 * 10, learned_hr_std |-> 10 * 10,
     resting_hr |-> 65 * 10,
     learned_systolic_mean |-> 120 * 10, learned_diastolic_mean |-> 80 * 10,
     active_hours |-> "default_active_hours",
     confidence_score |-> 0, total_records_analyzed |-> 0,
     last_learning_at |-> 0, updated_at |-> 0]

\* Mutant: a row that exists keeps its heart-rate limits
LearnedProfile_KeepLimits(row, records_summary, ai_result, now) ==
    [row EXCEPT
        !.learned_hr_low = IF row.total_records_analyzed > 0 THEN @
                           ELSE Get(ai_result, "learned_hr_low",
                                    records_summary.hr_mean - 2 * records_summary.hr_std),
        !.learned_hr_high = IF row.total_records_analyzed > 0 THEN @
                            ELSE Get(ai_result, "learned_hr_high",
                                     records_summary.hr_mean + 2 * records_summary.hr_std),
        !.learned_hr_mean = records_summary.hr_mean,
        !.learned_hr_std = records_summary.hr_std,
        !.resting_hr = Get(ai_result, "resting_hr", records_summary.hr_mean - 5 * 10),
        !.learned_systolic_mean = records_summary.systolic_mean,
        !.learned_diastolic_mean = records_summary.diastolic_mean,
        !.confidence_score = Get(ai_result, "confidence_score", 50),
        !.total_records_analyzed = records_summary.total_records,
        !.last_learning_at = now,
        !.updated_at = now]

\* "update AI learning result": the assignments to the row that was found
\* or newly made; active_hours is a column no assignment touches
LearnedProfile(row, records_summary, ai_result, now) ==
    [row EXCEPT
        !.learned_hr_low = Get(ai_result, "learned_hr_low",
                               records_summary.hr_mean - 2 * records_summary.hr_std),
        !.learned_hr_high = Get(ai_result, "learned_hr_high",
                                records_summary.hr_mean + 2 * records_summary.hr_std),
        !.learned_hr_mean = records_summary.hr_mean,
        !.learned_hr_std = records_summary.hr_std,
        !.resting_hr = Get(ai_result, "resting_hr", records_summary.hr_mean - 5 * 10),
        !.learned_systolic_mean = records_summary.systolic_mean,
        !.learned_diastolic_mean = records_summary.diastolic_mean,
        !.confidence_score = Get(ai_result, "confidence_score", 50),
        !.total_records_analyzed = records_summary.total_records,
        !.last_learning_at = now,
        !.updated_at = now]

\* Mutant: a window of exactly the minimum is still too small
TooFewRecords_Inclusive(records_summary) ==
    records_summary.total_records <= MIN_LEARNING_RECORDS

\* len(records) < 10
TooFewRecords(records_summary) ==
    records_summary.total_records < MIN_LEARNING_RECORDS

\* The row the handler's query finds, or the new row it makes
FoundOrNew(elder_id) ==
    IF profiles[elder_id] = None THEN NewProfile ELSE profiles[elder_id]

\* datetime.now() does not run backwards between two runs of a subject
ClockOk(elder_id, now) ==
    profiles[elder_id] # None => now >= profiles[elder_id].updated_at

\* The whole handler with no other request in between.  `now` is the value
\* of datetime.now(timezone.utc) at the assignments.
trigger_baseline_learning(elder_id, records_summary, llm, now) ==
    /\ pc = "idle"
    /\ ClockOk(elder_id, now)
    /\ IF TooFewRecords(records_summary)
       THEN /\ UNCHANGED <<profiles, profile_rows>>
            /\ last' = [op |-> "learn", user_id |-> elder_id, status_code |-> 400,
                        count |-> records_summary.total_records,
                        window |-> records_summary, llm |-> llm,
                        found |-> profiles[elder_id] # None]
       ELSE /\ profiles' = [profiles EXCEPT ![elder_id] =
                   LearnedProfile(FoundOrNew(elder_id), records_summary,
                                  analyze_personal_baseline(records_summary, llm), now)]
            /\ profile_rows' = IF profiles[elder_id] = None
                               THEN [profile_rows EXCEPT ![elder_id] = @ + 1]
                               ELSE profile_rows
            /\ last' = [op |-> "learn", user_id |-> elder_id, status_code |-> 200,
                        count |-> records_summary.total_records,
                        window |-> records_summary, llm |-> llm,
                        found |-> profiles[elder_id] # None]
    /\ pc' = "done"
    /\ UNCHANGED <<settings, zones, runs, contacts>>

---------------------------------------------------------------------------
(* Settings endpoints                                                      *)

DefaultSettings ==
    [heart_rate_threshold_high |-> 100, heart_rate_threshold_low |-> 50,
     systolic_bp_threshold_high |-> 140, systolic_bp_threshold_low |-> 90]

InRange(lo, x, hi) == lo <= x /\ x <= hi

\* The range checks of update_settings, in order; TRUE if none rejects
RangesOk(upd) ==
    /\ "heart_rate_threshold_high" \in DOMAIN upd
         => InRange(60, upd.heart_rate_threshold_high, 200)
    /\ "heart_rate_threshold_low" \in DOMAIN upd
         => InRange(30, upd.heart_rate_threshold_low, 100)
    /\ "systolic_bp_threshold_high" \in DOMAIN upd
         => InRange(100, upd.systolic_bp_threshold_high, 200)
    /\ "systolic_bp_threshold_low" \in DOMAIN upd
         => InRange(70, upd.systolic_bp_threshold_low, 120)

\* The row after the fields present in the request are assigned
Assigned(row, upd) ==
    [f \in DOMAIN row |-> IF f \in DOMAIN upd THEN upd[f] ELSE row[f]]

get_settings(elder_id) ==
    /\ pc = "idle"
    /\ settings' = IF settings[elder_id] = None
                   THEN [settings EXCEPT ![elder_id] = DefaultSettings]
                   ELSE settings
    /\ last' = [op |-> "get_settings", user_id |-> elder_id, status_code |-> 200]
    /\ pc' = "done"
    /\ UNCHANGED <<profiles, zones, learner, contacts>>

\* Mutant: a lower limit equal to the upper limit passes
ThresholdsOrdered_AllowEqual(row) ==
    /\ row.heart_rate_threshold_low <= row.heart_rate_threshold_high
    /\ row.systolic_bp_threshold_low <= row.systolic_bp_threshold_high

\* Neither of the two final checks of update_settings raises
ThresholdsOrdered(row) ==
    /\ ~(row.heart_rate_threshold_low >= row.heart_rate_threshold_high)
    /\ ~(row.systolic_bp_threshold_low >= row.systolic_bp_threshold_high)

\* An HTTPException leaves the handler before session.commit(), and the
\* session closes without writing what was assigned or added
update_settings(elder_id, upd) ==
    LET row == IF settings[elder_id] = None THEN DefaultSettings ELSE settings[elder_id]
        new == Assigned(row, upd)
        ok == RangesOk(upd) /\ ThresholdsOrdered(new)
    IN  /\ pc = "idle"
        /\ settings' = IF ok THEN [settings EXCEPT ![elder_id] = new] ELSE settings
        /\ last' = [op |-> "update_settings", user_id |-> elder_id, upd |-> upd,
                    status_code |-> IF ok THEN 200 ELSE 400]
        /\ pc' = "done"
        /\ UNCHANGED <<profiles, zones, learner, contacts>>

reset_settings(elder_id) ==
    /\ pc = "idle"
    /\ settings' = [settings EXCEPT ![elder_id] =
                       IF settings[elder_id] = None THEN DefaultSettings
                       ELSE Assigned(settings[elder_id], DefaultSettings)]
    /\ last' = [op |-> "reset_settings", user_id |-> elder_id, status_code |-> 200]
    /\ pc' = "done"
    /\ UNCHANGED <<profiles, zones, learner, contacts>>

---------------------------------------------------------------------------
(* Safe-zone endpoints                                                     *)

create_safe_zone(elder_id, zone) ==
    /\ pc = "idle"
    /\ IF \E i \in 1..Len(zones[elder_id]) : zones[elder_id][i].zone_name = zone.zone_name
       THEN /\ UNCHANGED zones
            /\ last' = [op |-> "create_safe_zone", user_id |-> elder_id, status_code |-> 400]
       ELSE /\ zones' = [zones EXCEPT ![elder_id] =
                            Append(@, zone @@ [is_active |-> TRUE])]
            /\ last' = [op |-> "create_safe_zone", user_id |-> elder_id, status_code |-> 200]
    /\ pc' = "done"
    /\ UNCHANGED <<profiles, settings, learner, contacts>>

\* The zone is addressed by its owner and its position among the owner's rows
toggle_safe_zone(elder_id, i) ==
    /\ pc = "idle"
    /\ i \in 1..Len(zones[elder_id])
    /\ zones' = [zones EXCEPT ![elder_id][i].is_active = ~@]
    /\ last' = [op |-> "toggle_safe_zone", user_id |-> elder_id, status_code |-> 200]
    /\ pc' = "done"
    /\ UNCHANGED <<profiles, settings, learner, contacts>>

---------------------------------------------------------------------------
(* Evaluation requests                                                     *)

\* A caller builds AnomalyDetector(session) and calls
\* comprehensive_analysis(record), as get_realtime_status does
Evaluate(record, fail) ==
    /\ pc = "idle"
    /\ last' = [op |-> "evaluate", user_id |-> record.user_id, record |-> record,
                fail |-> fail,
                result |-> comprehensive_analysis(record, EmptyCache, fail)]
    /\ pc' = "done"
    /\ UNCHANGED <<store, learner, contacts>>

RealtimeStatus(elder_id, record, fail, llm) ==
    /\ pc = "idle"
    /\ record # NoRecord => record.user_id = elder_id
    /\ \E analysis \in {IF record = NoRecord THEN None
                        ELSE comprehensive_analysis(record, EmptyCache, fail)} :
          last' = [op |-> "realtime_status", user_id |-> elder_id, record |-> record,
                   fail |-> fail, llm |-> llm, analysis |-> analysis,
                   response |-> get_realtime_status(record, analysis, llm)]
    /\ pc' = "done"
    /\ UNCHANGED <<store, learner, contacts>>

\* The response is sent; the request's objects are dropped
Return ==
    /\ pc = "done"
    /\ pc' = "idle"
    /\ last' = [op |-> "none"]
    /\ UNCHANGED <<store, learner, contacts>>

---------------------------------------------------------------------------
(* Inputs                                                                  *)

\* How far around each threshold the swept heart rates and pressures reach
HrSpread == 1
BpSpread == 1

Rec(u, hr, sys, dia, steps, lat, lng, hour) ==
    [user_id |-> u, heart_rate |-> hr, systolic_bp |-> sys, diastolic_bp |-> dia,
     steps |-> steps, latitude |-> lat, longitude |-> lng, hour |-> hour]

\* HealthRecordCreate's validators
ValidRecord(r) ==
    /\ InRange(20, r.heart_rate, 250)
    /\ InRange(60, r.systolic_bp, 250)
    /\ InRange(40, r.diastolic_bp, 150)
    /\ InRange(0, r.steps, 100000)
    /\ r.diastolic_bp < r.systolic_bp

HomePoint == [lat |-> 41, lng |-> 51]     \* the centre of the default "home" zone
FarPoint == [lat |-> 141, lng |-> 51]     \* 1.1 km north of it, in no default zone
GardenZone == [zone_name |-> "garden", latitude |-> 141, longitude |-> 51, radius |-> 150]

Around(pivots, spread) == UNION {{p - d, p + d} : p \in pivots, d \in 0..spread}

HrSweep == {20, 72, 95, 125, 250} \cup Around({50, 59, 60, 90, 91, 100, 109, 120}, HrSpread)
SysSweep == {60, 120, 250} \cup Around({90, 110, 130, 140, 160}, BpSpread)
DiaSweep == Around({90}, BpSpread)

\* All combinations of a few values of each dimension
CrossRecords(u) ==
    {Rec(u, hr, bp[1], bp[2], act[2], pt.lat, pt.lng, act[1]) :
        hr \in {45, 72, 95, 125},
        bp \in {<<120, 80>>, <<85, 60>>, <<170, 95>>},
        pt \in {HomePoint, FarPoint},
        act \in {<<2, 150>>, <<8, 0>>, <<13, 600>>, <<10, 0>>}}

\* One dimension swept across its thresholds, the others at rest
SweepRecords(u) ==
    {Rec(u, hr, 120, 80, 0, HomePoint.lat, HomePoint.lng, 10) : hr \in HrSweep}
    \cup {Rec(u, 72, sys, IF sys > 80 THEN 80 ELSE 40, 0, HomePoint.lat, HomePoint.lng, 10) :
             sys \in SysSweep}
    \cup {Rec(u, 72, sys, dia, 0, HomePoint.lat, HomePoint.lng, 10) :
             sys \in {100, 120, 165}, dia \in DiaSweep}

Records(u) == CrossRecords(u) \cup SweepRecords(u)

\* Records evaluated while the data store fails
OutageRecords(u) ==
    {Rec(u, 95, 135, 80, 0, HomePoint.lat, HomePoint.lng, 10),
     Rec(u, 72, 120, 80, 0, FarPoint.lat, FarPoint.lng, 10)}

StatusRecords(u) ==
    {NoRecord,
     Rec(u, 72, 120, 80, 0, HomePoint.lat, HomePoint.lng, 10),
     Rec(u, 72, 120, 80, 0, FarPoint.lat, FarPoint.lng, 10),
     Rec(u, 125, 120, 80, 0, FarPoint.lat, FarPoint.lng, 10),
     Rec(u, 125, 120, 80, 0, HomePoint.lat, HomePoint.lng, 10),
     Rec(u, 95, 150, 80, 0, HomePoint.lat, HomePoint.lng, 10),
     Rec(u, 45, 120, 80, 0, HomePoint.lat, HomePoint.lng, 2)}

StatusLLM ==
    {[kind |-> "no_client"], [kind |-> "error"],
     [kind |-> "reply", reply |-> [risk_level |-> RISK_DI,
                                   explanation |-> <<"llm_explanation">>]],
     [kind |-> "reply", reply |-> [risk_level |-> RISK_JINJI]],
     [kind |-> "reply", reply |-> [cross_analysis |-> "text"]]}

Summary(n, hr_mean, hr_std, systolic_mean, diastolic_mean) ==
    [total_records |-> n, hr_mean |-> hr_mean, hr_std |-> hr_std,
     systolic_mean |-> systolic_mean, diastolic_mean |-> diastolic_mean]

Windows == {Summary(9, 750, 80, 1250, 800), Summary(12, 750, 80, 1250, 800)}

BaselineLLM ==
    {[kind |-> "no_client"],
     [kind |-> "reply", reply |-> [learned_hr_high |-> 0, confidence_score |-> 90]],
     [kind |-> "reply", reply |-> [confidence_score |-> 30]]}

SettingsUpdates ==
    {[heart_rate_threshold_high |-> 90, heart_rate_threshold_low |-> 60,
      systolic_bp_threshold_high |-> 130, systolic_bp_threshold_low |-> 110],
     [heart_rate_threshold_low |-> 100]}

---------------------------------------------------------------------------
(* Specification                                                           *)

Init ==
    /\ profiles = [u \in Users |-> None]
    /\ settings = [u \in Users |-> None]
    /\ zones = [u \in Users |-> <<>>]
    /\ pc = "idle"
    /\ last = [op |-> "none"]
    /\ runs = [r \in RunIds |-> IdleRun]
    /\ profile_rows = [u \in Users |-> 0]
    /\ contacts = {}

Next ==
    \/ \E u \in Users, w \in Windows, llm \in BaselineLLM :
          trigger_baseline_learning(u, w, llm, 1)
    \/ \E u \in Users, upd \in SettingsUpdates : update_settings(u, upd)
    \/ \E u \in Users : create_safe_zone(u, GardenZone)
    \/ \E u \in Users : \E r \in Records(u) : Evaluate(r, {})
    \/ \E u \in Users : \E r \in OutageRecords(u), fail \in (SUBSET LookupSites) \ {{}} :
          (r.heart_rate = 95 \/ fail = LookupSites) /\ Evaluate(r, fail)
    \/ \E u \in Users : \E r \in StatusRecords(u), llm \in StatusLLM :
          RealtimeStatus(u, r, {}, llm)
    \/ Return

Spec == Init /\ [][Next]_vars

---------------------------------------------------------------------------
(* Properties.  An evaluation is held in `last` from the step that handles  *)
(* it until Return; the store is not written in between, so the rows the    *)
(* evaluation read are the rows of the same state.                          *)

Evaluated == last.op = "evaluate" /\ ~last.result.raised

\* The severity order normal < low < medium < warning < high
SeverityOrder == <<"normal", "low", "medium", "warning", "high">>
Rank(sev) == CHOOSE i \in 1..Len(SeverityOrder) : SeverityOrder[i] = sev

Analyses(r) == <<r.heart_rate_analysis, r.blood_pressure_analysis,
                 r.location_analysis, r.activity_analysis>>
MaxRank(r) == CHOOSE m \in 1..5 :
    /\ \E i \in 1..4 : Rank(Analyses(r)[i].severity) = m
    /\ \A i \in 1..4 : Rank(Analyses(r)[i].severity) <= m
Anomalous(r) == {i \in 1..4 : Analyses(r)[i].is_anomaly}

RiskOf(status) ==
    CASE status = "danger" -> RISK_GAO
      [] status = "warning" -> RISK_ZHONG
      [] status = "safe" -> RISK_DI

\* C1: overall_status is danger iff the maximum severity is high or at least
\* two analyzers are anomalous, else warning iff the maximum severity is at
\* least medium, else safe; overall_risk is gao / zhong / di for danger /
\* warning / safe; anomaly_count is the number of anomalous analyzers.
C1_OverallStatus ==
    Evaluated =>
        LET r == last.result
            n == Cardinality(Anomalous(r))
            m == MaxRank(r)
        IN  /\ r.anomaly_count = n
            /\ r.overall_status =
                   IF m >= Rank("high") \/ n >= 2 THEN "danger"
                   ELSE IF m >= Rank("medium") THEN "warning"
                   ELSE "safe"
            /\ r.overall_risk = RiskOf(r.overall_status)

\* Two anomalies, none of severity high, give danger
C1_Witness ==
    /\ Evaluated
    /\ last.result.anomaly_count >= 2
    /\ MaxRank(last.result) < Rank("high")
    /\ last.result.overall_status = "danger"

Reassuring == {"reassure_morning_exercise", "reassure_midday_rest", "reassure_generic"}

ReassuringFor(activity) ==
    CASE activity = "morning_exercise" -> "reassure_morning_exercise"
      [] activity = "midday_rest" -> "reassure_midday_rest"
      [] OTHER -> "reassure_generic"

\* C2: summary_message is never empty; when the status is not safe it is none
\* of the three reassuring sentences; when the status is safe it is exactly
\* the reassuring sentence of the activity label and holds no analyzer's
\* message.
C2_MessageAgreesWithVerdict ==
    Evaluated =>
        LET r == last.result
            msg == r.summary_message
        IN  /\ msg # <<>>
            /\ r.overall_status # "safe" =>
                   \A i \in 1..Len(msg) : msg[i] \notin Reassuring
            /\ r.overall_status = "safe" =>
                   /\ msg = <<ReassuringFor(r.activity_analysis.activity)>>
                   /\ \A i \in 1..Len(msg), j \in 1..4 : msg[i] # Analyses(r)[j].message

C2_Witness ==
    /\ Evaluated
    /\ last.result.overall_status = "safe"
    /\ last.result.activity_analysis.activity = "morning_exercise"
    /\ last.result.summary_message = <<"reassure_morning_exercise">>

StatusAnswered ==
    /\ last.op = "realtime_status"
    /\ last.record # NoRecord
    /\ ~last.response.raised

\* C3: the realtime-status response carries the engine's verdict whatever the
\* enrichment collaborator returns: status and riskLevel are those of the
\* analysis, riskLevel mirrors status, and a status other than safe never
\* comes with the message that all indicators are normal.
C3_VerdictIndependentOfEnrichment ==
    StatusAnswered =>
        /\ last.response.status = last.analysis.overall_status
        /\ last.response.riskLevel = last.analysis.overall_risk
        /\ last.response.riskLevel = RiskOf(last.response.status)
        /\ ~(last.response.status # "safe"
             /\ last.response.message = <<"mock_all_normal">>)

Trusted(p) == p # None /\ p.confidence_score > 30

\* C4: with the store answering, analyze_heart_rate uses the learned limits
\* iff the subject has a profile with confidence_score > 0.3, else the manual
\* limits if a settings row exists, else high = 100 and low = 50.
C4_ThresholdChain ==
    (Evaluated /\ last.fail = {}) =>
        LET h == last.result.heart_rate_analysis
            p == profiles[last.user_id]
            row == settings[last.user_id]
        IN  /\ h.using_ai_baseline = Trusted(p)
            /\ Trusted(p) => /\ h.hr_low = p.learned_hr_low
                             /\ h.hr_high = p.learned_hr_high
            /\ (~Trusted(p) /\ row # None) =>
                   /\ h.hr_low = row.heart_rate_threshold_low * 10
                   /\ h.hr_high = row.heart_rate_threshold_high * 10
            /\ (~Trusted(p) /\ row = None) =>
                   /\ h.hr_low = 50 * 10
                   /\ h.hr_high = 100 * 10

\* A profile with confidence exactly 0.3 is passed over for the manual limits
C4_Witness ==
    /\ Evaluated /\ last.fail = {}
    /\ profiles[last.user_id] # None
    /\ profiles[last.user_id].confidence_score = 30
    /\ settings[last.user_id] # None
    /\ ~last.result.heart_rate_analysis.using_ai_baseline
    /\ last.result.heart_rate_analysis.hr_high = 90 * 10

\* C5: comprehensive_analysis returns a result for every valid sample and
\* every stored profile, settings and zone state.
C5_EvaluationTotal ==
    (last.op = "evaluate" /\ ValidRecord(last.record)) => ~last.result.raised

\* An evaluation during which the data store raised in at least one lookup
Outage == last.op = "evaluate" /\ last.fail # {}

\* C6: a lookup in which the data store raises counts as "no data" and the
\* analyzer that made it does not raise: a failed profile lookup leaves the
\* manual limits or the defaults, a failed settings lookup leaves the
\* defaults (100/50 and 140/90, diastolic 90), a failed zone lookup leaves the
\* default zone list, and when every lookup fails the evaluation returns a
\* result built from the defaults only.
C6_LookupFailureIsNoData ==
    Outage =>
        LET u == last.user_id
            rec == last.record
            f == last.fail
            row == settings[u]
            hr == analyze_heart_rate(rec.heart_rate, u, EmptyCache, f)
            bp == analyze_blood_pressure(rec.systolic_bp, rec.diastolic_bp, u, f)
            loc == analyze_location(rec.latitude, rec.longitude, u, f)
            hrDefault == hr.hr_high = 100 * 10 /\ hr.hr_low = 50 * 10
        IN  /\ ~last.result.raised =>
                   /\ last.result.heart_rate_analysis = hr
                   /\ last.result.blood_pressure_analysis = bp
                   /\ last.result.location_analysis = loc
            /\ "hr_profile" \in f =>
                   /\ ~last.result.raised
                   /\ ~hr.using_ai_baseline
                   /\ IF "hr_settings" \in f \/ row = None THEN hrDefault
                      ELSE /\ hr.hr_high = row.heart_rate_threshold_high * 10
                           /\ hr.hr_low = row.heart_rate_threshold_low * 10
            /\ ("hr_profile" \notin f /\ ~Trusted(profiles[u]) /\ "hr_settings" \in f) =>
                   ~hr.raised /\ ~hr.using_ai_baseline /\ hrDefault
            /\ "bp_settings" \in f =>
                   /\ ~bp.raised
                   /\ bp.bp_sys_high = 140 /\ bp.bp_sys_low = 90 /\ bp.bp_dia_high = 90
            /\ "zones" \in f => ~loc.raised /\ loc.safe_zones = SAFE_ZONES
            /\ {"hr_profile", "ctx_profile"} \subseteq f =>
                   ~last.result.baseline_context.has_profile

\* Every lookup fails for a subject who has a trusted profile, a settings row
\* and a zone of their own: the defaults decide, and the subject's own zone
\* around the sample's position is not consulted
C6_Witness ==
    /\ Outage /\ last.fail = LookupSites
    /\ Trusted(profiles[last.user_id])
    /\ settings[last.user_id] # None
    /\ zones[last.user_id] # <<>>
    /\ ~last.result.raised
    /\ last.result.heart_rate_analysis.hr_high = 100 * 10
    /\ last.result.blood_pressure_analysis.bp_sys_high = 140
    /\ last.result.location_analysis.safe_zones = SAFE_ZONES
    /\ last.result.location_analysis.is_anomaly

\* dev10 (tenths of a percent) is diff/limit*100 rounded to one decimal
NearestTenthPercent(dev10, diff, limit) ==
    2 * Abs(dev10 * limit - 1000 * diff) <= limit

\* C7: with the resolved limits low and high, is_anomaly iff heart_rate > high
\* or heart_rate < low; above high the severity is high when
\* (heart_rate - high)/high*100 > 20 and warning otherwise; below low it is
\* medium; deviation_percent is |heart_rate - limit|/limit*100 to one decimal
\* and is present only when anomalous.
C7_HeartRateSemantics ==
    Evaluated =>
        LET h == last.result.heart_rate_analysis
            hr10 == last.record.heart_rate * 10
            above == hr10 > h.hr_high
            below == ~above /\ hr10 < h.hr_low
        IN  /\ h.is_anomaly <=> (hr10 > h.hr_high \/ hr10 < h.hr_low)
            /\ ("deviation_percent" \in DOMAIN h) <=> h.is_anomaly
            /\ above =>
                   /\ h.severity = IF (hr10 - h.hr_high) * 100 > 20 * h.hr_high
                                   THEN "high" ELSE "warning"
                   /\ NearestTenthPercent(h.deviation_percent, hr10 - h.hr_high, h.hr_high)
            /\ below =>
                   /\ h.severity = "medium"
                   /\ NearestTenthPercent(h.deviation_percent, h.hr_low - hr10, h.hr_low)
            /\ ~h.is_anomaly => h.severity = "normal"

\* 110 bpm against a learned upper limit of 91.0: 20.9 percent above, high
C7_Witness ==
    /\ Evaluated
    /\ last.record.heart_rate = 110
    /\ last.result.heart_rate_analysis.hr_high = 910
    /\ last.result.heart_rate_analysis.severity = "high"
    /\ last.result.heart_rate_analysis.deviation_percent = 209

\* C8 as stated: heart_rate == high is anomalous, heart_rate == low is not,
\* and no heart rate strictly between low and high is anomalous.
C8_UpperLimitAnomalous ==
    Evaluated =>
        LET h == last.result.heart_rate_analysis
            hr10 == last.record.heart_rate * 10
        IN  /\ hr10 = h.hr_high => h.is_anomaly
            /\ hr10 = h.hr_low => ~h.is_anomaly
            /\ (h.hr_low < hr10 /\ hr10 < h.hr_high) => ~h.is_anomaly

\* C8: both limits belong to the normal range: no heart rate from low to high,
\* the two limits included, is anomalous; in particular heart_rate == high is
\* not anomalous and heart_rate == low is not anomalous.
C8_LimitsAreNormal ==
    Evaluated =>
        LET h == last.result.heart_rate_analysis
            hr10 == last.record.heart_rate * 10
        IN  /\ (h.hr_low <= hr10 /\ hr10 <= h.hr_high) =>
                   ~h.is_anomaly /\ h.severity = "normal"
            /\ hr10 = h.hr_high + 10 => h.is_anomaly
            /\ (hr10 = h.hr_low - 10 /\ hr10 <= h.hr_high) => h.is_anomaly

\* A heart rate equal to the upper limit is reported normal
C8_Witness ==
    /\ Evaluated
    /\ last.record.heart_rate * 10 = last.result.heart_rate_analysis.hr_high
    /\ ~last.result.heart_rate_analysis.is_anomaly

\* C9: is_anomaly iff systolic > sys_high or diastolic > dia_high or
\* systolic < sys_low; the high case comes first, its severity is high iff
\* systolic > 160 and warning otherwise; the low case has severity warning.
C9_BloodPressureSemantics ==
    Evaluated =>
        LET b == last.result.blood_pressure_analysis
            s == last.record.systolic_bp
            d == last.record.diastolic_bp
            high == s > b.bp_sys_high \/ d > b.bp_dia_high
            low == s < b.bp_sys_low
        IN  /\ b.is_anomaly <=> (high \/ low)
            /\ high => /\ b.message = "bp_high"
                       /\ b.severity = IF s > 160 THEN "high" ELSE "warning"
            /\ (~high /\ low) => b.message = "bp_low" /\ b.severity = "warning"
            /\ ~b.is_anomaly => b.message = "bp_normal" /\ b.severity = "normal"

\* Diastolic above its limit while systolic is below sys_low: the high case
C9_Witness ==
    /\ Evaluated
    /\ last.record.diastolic_bp > last.result.blood_pressure_analysis.bp_dia_high
    /\ last.record.systolic_bp < last.result.blood_pressure_analysis.bp_sys_low
    /\ last.result.blood_pressure_analysis.message = "bp_high"
    /\ last.result.blood_pressure_analysis.severity = "warning"

\* What the settings row alone (None if there is none) makes of a reading
PressureVerdict(row, s, d) ==
    LET sys_high == IF row = None THEN 140 ELSE row.systolic_bp_threshold_high
        sys_low == IF row = None THEN 90 ELSE row.systolic_bp_threshold_low
    IN  IF s > sys_high \/ d > 90
        THEN [is_anomaly |-> TRUE, message |-> "bp_high",
              severity |-> IF s > 160 THEN "high" ELSE "warning"]
        ELSE IF s < sys_low
        THEN [is_anomaly |-> TRUE, message |-> "bp_low", severity |-> "warning"]
        ELSE [is_anomaly |-> FALSE, message |-> "bp_normal", severity |-> "normal"]

\* C10: with the store answering, the systolic limits are those of the
\* settings row if there is one and 140/90 otherwise, the diastolic limit is
\* 90, and the blood-pressure result is determined by the reading and the
\* settings row alone, whatever the subject's profile.
C10_PressureLimitsIgnoreProfile ==
    (Evaluated /\ last.fail = {}) =>
        LET b == last.result.blood_pressure_analysis
            row == settings[last.user_id]
            v == PressureVerdict(row, last.record.systolic_bp, last.record.diastolic_bp)
        IN  /\ b.bp_sys_high = IF row = None THEN 140 ELSE row.systolic_bp_threshold_high
            /\ b.bp_sys_low = IF row = None THEN 90 ELSE row.systolic_bp_threshold_low
            /\ b.bp_dia_high = 90
            /\ b.is_anomaly = v.is_anomaly
            /\ b.message = v.message
            /\ b.severity = v.severity

\* A trusted profile with a learned systolic mean of 125.0 and no settings
\* row: 141 mmHg is judged against 140
C10_Witness ==
    /\ Evaluated /\ last.fail = {}
    /\ Trusted(profiles[last.user_id])
    /\ profiles[last.user_id].learned_systolic_mean = 1250
    /\ settings[last.user_id] = None
    /\ last.record.systolic_bp = 141
    /\ last.result.blood_pressure_analysis.bp_sys_high = 140
    /\ last.result.blood_pressure_analysis.is_anomaly

---------------------------------------------------------------------------
(* Geofence specification: guardians create zones and switch them on and   *)
(* off, and samples taken at a few positions are evaluated.                *)

\* A zone of the subject's own around the default "home" centre
OwnHomeZone == [zone_name |-> "own_home", latitude |-> 41, longitude |-> 51, radius |-> 100]

\* 155 m north of the home centre: inside the default "home" (200 m), outside
\* OwnHomeZone (100 m)
NearHomePoint == [lat |-> 55, lng |-> 51]

ZonePoints == {HomePoint, NearHomePoint, FarPoint}

ZoneRecords(u) == {Rec(u, 72, 120, 80, 0, pt.lat, pt.lng, 10) : pt \in ZonePoints}

ZoneNext ==
    \/ \E u \in Users, z \in {GardenZone, OwnHomeZone} : create_safe_zone(u, z)
    \/ \E u \in Users, i \in 1..2 : toggle_safe_zone(u, i)
    \/ \E u \in Users : \E r \in ZoneRecords(u) : Evaluate(r, {})
    \/ Return

ZoneSpec == Init /\ [][ZoneNext]_vars

\* The positions of the subject's rows that are switched on
ActiveRows(u) == {i \in 1..Len(zones[u]) : zones[u][i].is_active}

\* The sample's position lies in the subject's i-th zone
InsideRow(rec, i) ==
    InZone(rec.latitude, rec.longitude, ZoneDict(zones[rec.user_id][i]))

\* C11: the location analysis is anomalous iff the point lies outside every
\* active zone of the subject, also when the subject has no active zone; an
\* anomaly has severity high; location_name is the unknown-area sentinel
\* exactly when anomalous, otherwise the name of an active zone of the
\* subject that contains the point.
C11_AnomalyIffOutsideActiveZones ==
    Evaluated =>
        LET loc == last.result.location_analysis
            u == last.user_id
            inside == {i \in ActiveRows(u) : InsideRow(last.record, i)}
        IN  /\ loc.is_anomaly <=> inside = {}
            /\ loc.is_anomaly => loc.severity = "high"
            /\ (loc.location_name = UNKNOWN_AREA) <=> loc.is_anomaly
            /\ ~loc.is_anomaly =>
                   \E i \in inside : loc.location_name = zones[u][i].zone_name

---------------------------------------------------------------------------
(* Activity specification: analyze_activity_pattern applied to every hour  *)
(* of the day and to heart rates and step counts around its thresholds.    *)

StepSpread == 1

ActivityHours == 0..23
ActivityHeartRates == {60} \cup Around({85, 100, 120}, HrSpread)
ActivitySteps == {0} \cup Around({100, 500}, StepSpread)

\* One call of analyze_activity_pattern, as comprehensive_analysis makes it
AnalyzeActivity(current_hour, heart_rate, steps) ==
    /\ pc = "idle"
    /\ last' = [op |-> "activity", hour |-> current_hour, heart_rate |-> heart_rate,
                steps |-> steps,
                result |-> analyze_activity_pattern(current_hour, heart_rate, steps)]
    /\ pc' = "done"
    /\ UNCHANGED <<store, learner, contacts>>

ActivityNext ==
    \/ \E h \in ActivityHours, hr \in ActivityHeartRates, st \in ActivitySteps :
          AnalyzeActivity(h, hr, st)
    \/ Return

ActivitySpec == Init /\ [][ActivityNext]_vars

ActivityAnalyzed == last.op = "activity"

Night(h) == h >= 22 \/ h < 6
Morning(h) == h \in 7..9
Midday(h) == h \in 12..14

\* C12: in the night band the result is anomalous iff heart_rate > 85 or
\* steps > 100, severity warning; in the morning band iff heart_rate > 120,
\* severity warning; in the midday band iff heart_rate > 100 and steps > 500,
\* severity medium; no hour is in two bands, and in the hours 6, 10, 11 and
\* 15..21 the result is never anomalous.
C12_ActivityBands ==
    ActivityAnalyzed =>
        LET h == last.hour
            hr == last.heart_rate
            st == last.steps
            r == last.result
        IN  /\ Cardinality({b \in {"n", "m", "d"} :
                    \/ b = "n" /\ Night(h)
                    \/ b = "m" /\ Morning(h)
                    \/ b = "d" /\ Midday(h)}) <= 1
            /\ Night(h) => /\ r.is_anomaly <=> (hr > 85 \/ st > 100)
                           /\ r.is_anomaly => r.severity = "warning"
            /\ Morning(h) => /\ r.is_anomaly <=> hr > 120
                             /\ r.is_anomaly => r.severity = "warning"
            /\ Midday(h) => /\ r.is_anomaly <=> (hr > 100 /\ st > 500)
                            /\ r.is_anomaly => r.severity = "medium"
            /\ h \in {6, 10, 11} \cup (15..21) => ~r.is_anomaly
            /\ ~r.is_anomaly => r.severity = "normal"

\* Six o'clock with a racing heart and many steps: no band, no anomaly
C12_Witness ==
    /\ ActivityAnalyzed
    /\ last.hour = 6 /\ last.heart_rate > 120 /\ last.steps > 500
    /\ ~last.result.is_anomaly

\* C13 as stated: for every hour the label is the same whatever the heart
\* rate and the steps, anomalous or not.
C13_LabelByHourAlone ==
    ActivityAnalyzed =>
        \A hr \in ActivityHeartRates, st \in ActivitySteps :
            analyze_activity_pattern(last.hour, hr, st).activity = last.result.activity

\* C13: in the morning and midday bands and outside the bands the label is
\* fixed by the hour alone (morning exercise, midday rest, normal activity),
\* anomalous or not; in the night band the label is night-abnormal-activity
\* when the result is anomalous and normal activity when it is not.
C13_LabelByBand ==
    ActivityAnalyzed =>
        LET h == last.hour
            r == last.result
        IN  r.activity =
                IF Morning(h) THEN "morning_exercise"
                ELSE IF Midday(h) THEN "midday_rest"
                ELSE IF Night(h) /\ r.is_anomaly THEN "night_abnormal_activity"
                ELSE "normal_activity"

\* A morning result that is anomalous and still carries the morning label
C13_Witness ==
    /\ ActivityAnalyzed
    /\ last.hour = 8
    /\ last.result.is_anomaly
    /\ last.result.activity = "morning_exercise"

\* The messages of the anomalous analyzers among the first n, in the order
\* heart rate, blood pressure, location, activity
RECURSIVE AnomalousMessages(_, _)
AnomalousMessages(an, n) ==
    IF n = 0 THEN <<>>
    ELSE AnomalousMessages(an, n - 1)
            \o (IF an[n].is_anomaly THEN <<an[n].message>> ELSE <<>>)

\* Heart rate 125 against high = 100 outside every zone, pressure and
\* activity not anomalous
DangerScenario ==
    /\ Evaluated
    /\ last.record.heart_rate = 125
    /\ last.result.heart_rate_analysis.hr_high = 100 * 10
    /\ last.result.location_analysis.is_anomaly
    /\ ~last.result.blood_pressure_analysis.is_anomaly
    /\ ~last.result.activity_analysis.is_anomaly

\* C14: when at least one analyzer is anomalous, summary_message is the
\* messages of the anomalous analyzers and of no other, in the order heart
\* rate, blood pressure, location, activity (the list the code joins with
\* single spaces); in the scenario above both severities are high,
\* anomaly_count is 2, the status is danger, the risk gao, and the message is
\* the heart-rate message followed by the location message.
C14_MessageOfAnomalousAnalyzers ==
    Evaluated =>
        LET r == last.result
        IN  /\ r.anomaly_count >= 1 =>
                   r.summary_message = AnomalousMessages(Analyses(r), 4)
            /\ DangerScenario =>
                   /\ r.heart_rate_analysis.severity = "high"
                   /\ r.location_analysis.severity = "high"
                   /\ r.anomaly_count = 2
                   /\ r.overall_status = "danger"
                   /\ r.overall_risk = RISK_GAO
                   /\ r.summary_message = <<r.heart_rate_analysis.message,
                                            r.location_analysis.message>>

C14_Witness ==
    /\ DangerScenario
    /\ last.result.summary_message = <<"hr_high", "location_deviation">>

\* C27: each of the four analyzers reports is_anomaly iff its severity is not
\* normal, and an anomaly is of severity medium, warning or high; so
\* overall_status is safe iff anomaly_count = 0, and summary_message is never
\* one of the two generic sentences kept for a non-safe status without an
\* anomalous analyzer.
C27_AnomalyIffSeverity ==
    Evaluated =>
        LET r == last.result
        IN  /\ \A i \in 1..4 :
                   /\ Analyses(r)[i].is_anomaly <=> Analyses(r)[i].severity # "normal"
                   /\ Analyses(r)[i].is_anomaly =>
                          Analyses(r)[i].severity \in {"medium", "warning", "high"}
            /\ r.overall_status = "safe" <=> r.anomaly_count = 0
            /\ r.summary_message \notin {<<"generic_high_risk">>, <<"generic_mild_concern">>}

\* One anomaly of the least severity an analyzer gives: the status is warning
C27_Witness ==
    /\ Evaluated
    /\ last.result.anomaly_count = 1
    /\ last.result.heart_rate_analysis.severity = "medium"
    /\ last.result.overall_status = "warning"
    /\ last.result.summary_message = <<last.result.heart_rate_analysis.message>>

---------------------------------------------------------------------------
(* Learner specification: learn runs one after the other, over windows     *)
(* whose mean +/- 2*std falls inside and outside 50..120 and over every    *)
(* outcome of the enrichment call.                                         *)

MaxClock == 2
Clock == 1..MaxClock

LearnWindows ==
    {Summary(9, 750, 80, 1250, 800),      \* one sample short
     Summary(10, 750, 80, 1250, 800),     \* 59.0 .. 91.0
     Summary(10, 1100, 100, 1300, 850),   \* 90.0 .. 130.0, above the cap
     Summary(10, 600, 80, 1100, 700)}     \* 44.0 .. 76.0, below the floor

\* json.loads gave {} / a complete object
EmptyReply == [kind |-> "reply", reply |-> <<>>]
FullReply == [kind |-> "reply",
              reply |-> [learned_hr_low |-> 550, learned_hr_high |-> 1050,
                         resting_hr |-> 640, confidence_score |-> 80]]

LearnLLM == {[kind |-> "no_client"], [kind |-> "error"], EmptyReply, FullReply}

LearnNext ==
    \/ \E u \in Users, w \in LearnWindows, llm \in LearnLLM, now \in Clock :
          trigger_baseline_learning(u, w, llm, now)
    \/ Return

LearnSpec == Init /\ [][LearnNext]_vars

Learned == last.op = "learn" /\ last.status_code = 200

\* C15: a learn run over fewer than 10 samples answers 400 with the actual
\* count and leaves the profile table as it was; a run over 10 or more
\* samples is accepted and stores a profile of that window.
C15_TooFewSamplesRejected ==
    [][(pc = "idle" /\ last'.op = "learn") =>
          LET u == last'.user_id
              n == last'.window.total_records
          IN  IF n < 10
              THEN /\ last'.status_code = 400
                   /\ last'.count = n
                   /\ profiles' = profiles
                   /\ profile_rows' = profile_rows
              ELSE /\ last'.status_code = 200
                   /\ profiles'[u] # None
                   /\ profiles'[u].total_records_analyzed = n]_vars

\* Nine samples are refused for a subject who has a profile already
C15_Witness ==
    /\ last.op = "learn"
    /\ last.status_code = 400
    /\ last.count = 9
    /\ last.found
    /\ profiles[last.user_id] # None

\* The enrichment step supplied the key
Supplied(llm, key) == llm.kind = "reply" /\ key \in DOMAIN llm.reply

\* C16: whenever the enrichment step does not supply learned_hr_low,
\* learned_hr_high or resting_hr, the stored value is mean - 2*std floored at
\* 50, mean + 2*std capped at 120, mean - 5.
C16_FallbackDerivations ==
    Learned =>
        LET p == profiles[last.user_id]
            w == last.window
        IN  /\ ~Supplied(last.llm, "learned_hr_low") =>
                   p.learned_hr_low = Max2(50 * 10, w.hr_mean - 2 * w.hr_std)
            /\ ~Supplied(last.llm, "learned_hr_high") =>
                   p.learned_hr_high = Min2(120 * 10, w.hr_mean + 2 * w.hr_std)
            /\ ~Supplied(last.llm, "resting_hr") =>
                   p.resting_hr = w.hr_mean - 5 * 10

\* The learned fields as this run's window and enrichment result give them
ExpectedLearned(w, ai) ==
    [learned_hr_low |-> Get(ai, "learned_hr_low", w.hr_mean - 2 * w.hr_std),
     learned_hr_high |-> Get(ai, "learned_hr_high", w.hr_mean + 2 * w.hr_std),
     learned_hr_mean |-> w.hr_mean, learned_hr_std |-> w.hr_std,
     resting_hr |-> Get(ai, "resting_hr", w.hr_mean - 5 * 10),
     learned_systolic_mean |-> w.systolic_mean,
     learned_diastolic_mean |-> w.diastolic_mean,
     active_hours |-> "default_active_hours",
     confidence_score |-> Get(ai, "confidence_score", 50),
     total_records_analyzed |-> w.total_records]

LearnedFields == DOMAIN ExpectedLearned(Summary(0, 0, 0, 0, 0), <<>>)
LearnedPart(p) == [f \in LearnedFields |-> p[f]]

\* C18 as stated: a run on the window and enrichment result the stored
\* profile came from leaves the profile identical except for
\* last_learning_at.
C18_RerunChangesOnlyLastLearningAt ==
    [][(pc = "idle" /\ last'.op = "learn" /\ last'.status_code = 200
          /\ profiles[last'.user_id] # None
          /\ LearnedPart(profiles[last'.user_id]) =
                 ExpectedLearned(last'.window,
                                 analyze_personal_baseline(last'.window, last'.llm)))
        => [profiles'[last'.user_id] EXCEPT !.last_learning_at = 0]
             = [profiles[last'.user_id] EXCEPT !.last_learning_at = 0]]_vars

\* C18: after a learn run every learned field of the stored profile is what
\* that run's window and enrichment result give, whatever the profile held
\* before; only the two timestamps last_learning_at and updated_at, both set
\* to the time of the run, are not functions of the window and the result.
C18_RunReplacesProfile ==
    Learned =>
        LET p == profiles[last.user_id]
        IN  /\ LearnedPart(p) =
                   ExpectedLearned(last.window,
                                   analyze_personal_baseline(last.window, last.llm))
            /\ DOMAIN p = LearnedFields \cup {"last_learning_at", "updated_at"}
            /\ p.last_learning_at = p.updated_at
            /\ p.updated_at \in Clock

\* A later run over another profile: the limits are this run's
C18_Witness ==
    /\ Learned
    /\ last.found
    /\ last.llm.kind = "no_client"
    /\ last.window.hr_mean = 750
    /\ profiles[last.user_id].learned_hr_high = 910
    /\ profiles[last.user_id].updated_at = 2

\* The stored profile is the deterministic fallback's for mean 75, std 8
FallbackProfile7508(p) ==
    /\ p # None
    /\ p.learned_hr_mean = 750 /\ p.learned_hr_std = 80
    /\ p.learned_hr_low = 590 /\ p.learned_hr_high = 910
    /\ p.confidence_score = 50

\* C17: once a learn run that used the deterministic fallback has committed,
\* the subject's profile has confidence 0.5 and the fallback's limits, and an
\* evaluation of that subject (a new detector, reading the store as the run
\* left it) uses them with learned provenance, manual settings or not; for
\* mean 75 and std 8 the limits are 59 and 91, and heart rate 95 gives an
\* anomaly of severity warning with deviation_percent 4.4.
C17_LearnVisibleToEvaluation ==
    /\ (Learned /\ last.llm.kind # "reply") =>
           LET u == last.user_id
               p == profiles[u]
               w == last.window
               h == analyze_heart_rate(95, u, EmptyCache, {})
           IN  /\ p.confidence_score = 50
               /\ p.learned_hr_low = Max2(50 * 10, w.hr_mean - 2 * w.hr_std)
               /\ p.learned_hr_high = Min2(120 * 10, w.hr_mean + 2 * w.hr_std)
               /\ h.using_ai_baseline
               /\ h.hr_low = p.learned_hr_low /\ h.hr_high = p.learned_hr_high
               /\ (w.hr_mean = 750 /\ w.hr_std = 80) => FallbackProfile7508(p)
    /\ (Evaluated /\ last.fail = {} /\ FallbackProfile7508(profiles[last.user_id])) =>
           LET h == last.result.heart_rate_analysis
           IN  /\ h.using_ai_baseline
               /\ h.hr_low = 590 /\ h.hr_high = 910
               /\ last.record.heart_rate = 95 =>
                      /\ h.is_anomaly
                      /\ h.severity = "warning"
                      /\ h.deviation_percent = 44

\* Heart rate 95 judged against the learned 91 though the manual limit is 90
C17_Witness ==
    /\ Evaluated /\ last.fail = {}
    /\ FallbackProfile7508(profiles[last.user_id])
    /\ settings[last.user_id] # None
    /\ last.record.heart_rate = 95
    /\ last.result.heart_rate_analysis.using_ai_baseline
    /\ last.result.heart_rate_analysis.message = "hr_above_personal_baseline"
    /\ last.result.heart_rate_analysis.deviation_percent = 44

---------------------------------------------------------------------------
(* Concurrent learner.  trigger_baseline_learning is a coroutine: it reads  *)
(* the window, awaits the enrichment call, and only then queries the       *)
(* profile, assigns and commits.  Other requests run during the await; the *)
(* query and the commit are two statements of the request's own session,   *)
(* and a statement of another worker's session can fall between them.      *)

\* Mutant: user_id carries no unique constraint
UniqueViolation_Unconstrained(elder_id) == FALSE

\* HealthProfile.user_id is unique: a second row for the user is refused
UniqueViolation(elder_id) == profile_rows[elder_id] >= 1

\* Up to the await: access check, window query, the count check, the summary
LearnBegin(r, elder_id, records_summary) ==
    /\ runs[r].phase = "idle"
    /\ runs' = [runs EXCEPT ![r] =
                   IF TooFewRecords(records_summary)
                   THEN [phase |-> "done", user_id |-> elder_id, status_code |-> 400]
                   ELSE [phase |-> "awaiting", user_id |-> elder_id,
                         window |-> records_summary]]
    /\ UNCHANGED <<store, pc, last, profile_rows, contacts>>

\* The enrichment call returns and the handler queries the subject's profile
LearnQuery(r, llm) ==
    /\ runs[r].phase = "awaiting"
    /\ runs' = [runs EXCEPT ![r] =
                   [phase |-> "queried", user_id |-> runs[r].user_id,
                    window |-> runs[r].window,
                    ai_result |-> analyze_personal_baseline(runs[r].window, llm),
                    found |-> profiles[runs[r].user_id] # None,
                    profile |-> FoundOrNew(runs[r].user_id)]]
    /\ UNCHANGED <<store, pc, last, profile_rows, contacts>>

\* The assignments, session.add and session.commit: an UPDATE of the row
\* that was found, or the INSERT of the new row
LearnCommit(r, now) ==
    LET run == runs[r]
        u == run.user_id
        row == LearnedProfile(run.profile, run.window, run.ai_result, now)
    IN  /\ run.phase = "queried"
        /\ ClockOk(u, now)
        /\ IF run.found
           THEN /\ profiles' = [profiles EXCEPT ![u] = row]
                /\ UNCHANGED profile_rows
                /\ runs' = [runs EXCEPT ![r] =
                               [phase |-> "done", user_id |-> u, status_code |-> 200]]
           ELSE IF UniqueViolation(u)
           THEN /\ UNCHANGED <<profiles, profile_rows>>
                /\ runs' = [runs EXCEPT ![r] =
                               [phase |-> "done", user_id |-> u, status_code |-> 500]]
           ELSE /\ profiles' = [profiles EXCEPT ![u] =
                                   IF profiles[u] = None THEN row ELSE @]
                /\ profile_rows' = [profile_rows EXCEPT ![u] = @ + 1]
                /\ runs' = [runs EXCEPT ![r] =
                               [phase |-> "done", user_id |-> u, status_code |-> 200]]
        /\ UNCHANGED <<settings, zones, pc, last, contacts>>

\* The response (or the error) goes back to the caller
LearnRespond(r) ==
    /\ runs[r].phase = "done"
    /\ runs' = [runs EXCEPT ![r] = IdleRun]
    /\ UNCHANGED <<store, pc, last, profile_rows, contacts>>

ConcurrentWindows ==
    {Summary(9, 750, 80, 1250, 800), Summary(10, 750, 80, 1250, 800)}

ConcurrentNext ==
    \/ \E r \in RunIds, u \in Users, w \in ConcurrentWindows : LearnBegin(r, u, w)
    \/ \E r \in RunIds, llm \in {[kind |-> "no_client"], FullReply} : LearnQuery(r, llm)
    \/ \E r \in RunIds : LearnCommit(r, 1)
    \/ \E r \in RunIds : LearnRespond(r)

ConcurrentSpec == Init /\ [][ConcurrentNext]_vars

\* The run has read its window and has not committed yet
InFlight(r) == runs[r].phase \in {"awaiting", "queried"}

\* C19 as stated: learn runs of one subject never overlap: while a run is
\* between its window read and its commit, no other run of that subject is.
C19_RunsOfOneSubjectNeverOverlap ==
    \A r1, r2 \in RunIds :
        (r1 # r2 /\ InFlight(r1) /\ InFlight(r2)) => runs[r1].user_id # runs[r2].user_id

\* C20: the profile table never holds more than one row per subject, and a
\* subject has a row exactly when the lookup finds a profile.
C20_AtMostOneProfilePerSubject ==
    \A u \in Users :
        /\ profile_rows[u] <= 1
        /\ profile_rows[u] = 1 <=> profiles[u] # None

\* Two first-time runs of one subject both found no profile; one inserted
\* its row and the other's insert was refused
C20_Witness ==
    \E r1, r2 \in RunIds :
        /\ r1 # r2
        /\ runs[r1].phase = "done" /\ runs[r1].status_code = 500
        /\ runs[r2].phase = "done" /\ runs[r2].status_code = 200
        /\ runs[r1].user_id = runs[r2].user_id
        /\ profile_rows[runs[r1].user_id] = 1

---------------------------------------------------------------------------
(* Many records, one detector.  get_behavior_score and get_daily_timeline   *)
(* build one AnomalyDetector and call comprehensive_analysis on it once for *)
(* each of the day's records.  Both are plain functions, run on a worker    *)
(* thread, so learn runs go on between two calls of the loop.               *)

\* The most records one request evaluates
MaxScored == 2

\* detector = AnomalyDetector(session), for a subject with records today
ScoreBegin(elder_id) ==
    /\ pc = "idle"
    /\ pc' = "scoring"
    /\ last' = [op |-> "behavior_score", user_id |-> elder_id,
                cache |-> EmptyCache, n |-> 0]
    /\ UNCHANGED <<store, learner, contacts>>

\* One turn of `for record in records`: detector.comprehensive_analysis(record)
\* on the detector the request made, with the cache the earlier turns left
ScoreStep(record) ==
    /\ pc = "scoring"
    /\ last.n < MaxScored
    /\ record.user_id = last.user_id
    /\ last' = [op |-> "behavior_score", user_id |-> last.user_id,
                cache |-> CacheAfterAnalysis(record, last.cache, {}),
                n |-> last.n + 1,
                record |-> record,
                hit |-> last.cache[last.user_id] # None,
                result |-> comprehensive_analysis(record, last.cache, {})]
    /\ UNCHANGED <<pc, store, learner, contacts>>

\* The loop is over and the response is built.  The averages and the final
\* score are arithmetic on the analyses' is_anomaly flags and touch neither
\* the detector nor the store; they are not carried in the state.
ScoreEnd ==
    /\ pc = "scoring"
    /\ last.n >= 1
    /\ pc' = "done"
    /\ UNCHANGED <<last, store, learner, contacts>>

ScoreRecords(u) ==
    {Rec(u, 95, 120, 80, 0, HomePoint.lat, HomePoint.lng, 10),
     Rec(u, 72, 120, 80, 0, HomePoint.lat, HomePoint.lng, 10)}

ScoreNext ==
    \/ \E u \in Users : ScoreBegin(u)
    \/ \E u \in Users : \E r \in ScoreRecords(u) : ScoreStep(r)
    \/ ScoreEnd
    \/ Return
    \/ \E r \in RunIds, u \in Users, w \in ConcurrentWindows : LearnBegin(r, u, w)
    \/ \E r \in RunIds, llm \in {[kind |-> "no_client"], FullReply} : LearnQuery(r, llm)
    \/ \E r \in RunIds : LearnCommit(r, 1)
    \/ \E r \in RunIds : LearnRespond(r)

ScoreSpec == Init /\ [][ScoreNext]_vars

\* C21: every comprehensive_analysis call of a request gives what a detector
\* with an empty cache gives on the store as it is at the call (no call uses
\* a profile an earlier call cached, so a learn run committed between two
\* calls is seen by the second), and the detector's cache holds no entry for
\* a subject other than the one whose records it evaluates.
C21_CacheScopedToOneCall ==
    [][(pc = "scoring" /\ last'.op = "behavior_score" /\ last'.n = last.n + 1) =>
          /\ ~last'.hit
          /\ last'.result = comprehensive_analysis(last'.record, EmptyCache, {})
          /\ \A v \in Users \ {last'.user_id} : last'.cache[v] = None]_vars

\* The second call of a request answers from the profile the first call
\* cached (upper limit 91.0) after a learn run has stored 105.0
C21_StaleProfileUsed ==
    /\ last.op = "behavior_score"
    /\ last.n = 2 /\ last.hit
    /\ last.record.heart_rate = 95
    /\ last.result.heart_rate_analysis.hr_high = 910
    /\ last.result.heart_rate_analysis.is_anomaly
    /\ profiles[last.user_id].learned_hr_high = 1050

---------------------------------------------------------------------------
(* Enrichment specification: learn runs and realtime-status requests under *)
(* every outcome of the enrichment call, its failures among them.          *)

\* A reply whose upper limit is 0 and whose confidence is not above 0.3
ZeroLimitReply == [kind |-> "reply",
                   reply |-> [learned_hr_high |-> 0, confidence_score |-> 30]]

EnrichLearnLLM == {[kind |-> "no_client"], [kind |-> "error"], ZeroLimitReply, FullReply}

EnrichWindows == {Summary(10, 750, 80, 1250, 800)}

EnrichNext ==
    \/ \E u \in Users, w \in EnrichWindows, llm \in EnrichLearnLLM :
          trigger_baseline_learning(u, w, llm, 1)
    \/ \E u \in Users : \E r \in StatusRecords(u), llm \in StatusLLM :
          RealtimeStatus(u, r, {}, llm)
    \/ Return

EnrichSpec == Init /\ [][EnrichNext]_vars

\* The enrichment collaborator is not configured or its call failed
EnrichmentFailed(llm) == llm.kind \in {"no_client", "error"}

\* C22: when the enrichment collaborator is not configured or its call fails,
\* a realtime-status request whose analysis returned a result answers with
\* the deterministic fallback's text, and a learn run over enough samples
\* answers 200 and stores the deterministic fallback's profile; neither
\* raises.
C22_EnrichmentFailureNeverSurfaces ==
    /\ (last.op = "realtime_status" /\ EnrichmentFailed(last.llm)
          /\ last.record # NoRecord /\ ~last.analysis.raised) =>
           /\ ~last.response.raised
           /\ last.response.message[1] \in
                  {"mock_hr_high_and_location", "mock_hr_high", "mock_hr_low",
                   "mock_all_normal"}
    /\ (last.op = "learn" /\ EnrichmentFailed(last.llm) /\ last.count >= 10) =>
           /\ last.status_code = 200
           /\ LearnedPart(profiles[last.user_id]) =
                  ExpectedLearned(last.window, _mock_baseline_analysis(last.window))

\* The collaborator is not configured, the analysis returned a result, and
\* the request raised
C22_StatusRaised ==
    /\ last.op = "realtime_status" /\ last.llm.kind = "no_client"
    /\ last.record # NoRecord
    /\ ~last.analysis.raised
    /\ last.response.raised
    /\ profiles[last.user_id].learned_hr_high = 0

---------------------------------------------------------------------------
(* Settings specification: guardians read, update and reset the manual     *)
(* thresholds, with requests at and across the limits of each range.       *)

ThresholdUpdates ==
    {[heart_rate_threshold_high |-> 90, heart_rate_threshold_low |-> 60,
      systolic_bp_threshold_high |-> 130, systolic_bp_threshold_low |-> 110],
     [heart_rate_threshold_high |-> 60, heart_rate_threshold_low |-> 100],
     [heart_rate_threshold_high |-> 200, heart_rate_threshold_low |-> 30],
     [heart_rate_threshold_low |-> 100],
     [heart_rate_threshold_low |-> 60],
     [heart_rate_threshold_high |-> 60],
     [heart_rate_threshold_high |-> 59],
     [heart_rate_threshold_low |-> 101],
     [systolic_bp_threshold_low |-> 120],
     [systolic_bp_threshold_high |-> 100],
     [systolic_bp_threshold_high |-> 120],
     [systolic_bp_threshold_low |-> 69],
     [systolic_bp_threshold_high |-> 201]}

SettingsNext ==
    \/ \E u \in Users : get_settings(u)
    \/ \E u \in Users, upd \in ThresholdUpdates : update_settings(u, upd)
    \/ \E u \in Users : reset_settings(u)
    \/ Return

SettingsSpec == Init /\ [][SettingsNext]_vars

WellFormed(row) ==
    /\ row.heart_rate_threshold_low < row.heart_rate_threshold_high
    /\ row.systolic_bp_threshold_low < row.systolic_bp_threshold_high

\* The value a threshold would have once the request's fields are assigned
\* over the stored row, or over the column defaults when there is no row
After(row, upd, f) ==
    IF f \in DOMAIN upd THEN upd[f]
    ELSE IF row = None THEN DefaultSettings[f]
    ELSE row[f]

\* C23: an update_settings request after which heart-rate low >= high or
\* systolic low >= high would hold, whether it sends both limits or one,
\* answers 400 and leaves the settings table as it was; and after every get,
\* update and reset every stored row has heart-rate low < high and systolic
\* low < high.
C23_MalformedThresholdsRejected ==
    [][/\ (pc = "idle" /\ last'.op = "update_settings") =>
            LET row == settings[last'.user_id]
                upd == last'.upd
            IN  (\/ After(row, upd, "heart_rate_threshold_low")
                       >= After(row, upd, "heart_rate_threshold_high")
                 \/ After(row, upd, "systolic_bp_threshold_low")
                       >= After(row, upd, "systolic_bp_threshold_high"))
                => /\ last'.status_code = 400
                   /\ settings' = settings
       /\ \A u \in Users : settings'[u] # None => WellFormed(settings'[u])]_vars

\* Only the upper limit is sent, it is within its range, and it is refused
\* because it equals the stored lower limit
C23_Witness ==
    /\ last.op = "update_settings"
    /\ last.upd = [heart_rate_threshold_high |-> 60]
    /\ settings[last.user_id] # None
    /\ settings[last.user_id].heart_rate_threshold_low = 60
    /\ settings[last.user_id].heart_rate_threshold_high = 90
    /\ last.status_code = 400

---------------------------------------------------------------------------
(* Data-quality specification: _assess_data_quality applied to sample and  *)
(* day counts around its steps.                                            *)

\* Mutant: the number of days with data is not looked at
_assess_data_quality_TotalOnly(total_records, days_with_data) ==
    IF total_records >= 500 THEN "excellent"
    ELSE IF total_records >= 200 THEN "good"
    ELSE IF total_records >= 50 THEN "fair"
    ELSE "insufficient"

_assess_data_quality(total_records, days_with_data) ==
    IF total_records >= 500 /\ days_with_data >= 25 THEN "excellent"
    ELSE IF total_records >= 200 /\ days_with_data >= 14 THEN "good"
    ELSE IF total_records >= 50 /\ days_with_data >= 7 THEN "fair"
    ELSE "insufficient"

\* How far around each step the swept counts reach
QualitySpread == 1

QualityTotals == {0, 10, 1000} \cup Around({50, 200, 500}, QualitySpread)
QualityDays == {0, 1, 30} \cup Around({7, 14, 25}, QualitySpread)

\* profile.data_quality = _assess_data_quality(len(records), days_with_data)
AssessQuality(total_records, days_with_data) ==
    /\ pc = "idle"
    /\ last' = [op |-> "quality", total |-> total_records, days |-> days_with_data,
                result |-> _assess_data_quality(total_records, days_with_data)]
    /\ pc' = "done"
    /\ UNCHANGED <<store, learner, contacts>>

QualityNext ==
    \/ \E t \in QualityTotals, d \in QualityDays : AssessQuality(t, d)
    \/ Return

QualitySpec == Init /\ [][QualityNext]_vars

\* insufficient < fair < good < excellent
GradeOrder == <<"insufficient", "fair", "good", "excellent">>
GradeRank(g) == CHOOSE i \in 1..Len(GradeOrder) : GradeOrder[i] = g

\* C24: the grade is excellent iff total >= 500 and days >= 25, else good iff
\* total >= 200 and days >= 14, else fair iff total >= 50 and days >= 7, else
\* insufficient; and counts that are both at least as large never give a
\* worse grade.
C24_QualityStepFunction ==
    last.op = "quality" =>
        LET t == last.total
            d == last.days
            g == last.result
        IN  /\ g \in {"insufficient", "fair", "good", "excellent"}
            /\ g = "excellent" <=> (t >= 500 /\ d >= 25)
            /\ g = "good" <=> (~(t >= 500 /\ d >= 25) /\ t >= 200 /\ d >= 14)
            /\ g = "fair" <=> (~(t >= 200 /\ d >= 14) /\ t >= 50 /\ d >= 7)
            /\ \A t2 \in QualityTotals, d2 \in QualityDays :
                   (t2 >= t /\ d2 >= d) =>
                       GradeRank(_assess_data_quality(t2, d2)) >= GradeRank(g)

\* 500 samples on 24 days: one day short of excellent
C24_Witness ==
    /\ last.op = "quality"
    /\ last.total = 500 /\ last.days = 24
    /\ last.result = "good"

---------------------------------------------------------------------------
(* Geofence function specification: get_location_name and is_in_safe_zone  *)
(* applied to zone lists of every order, the empty list among them, and to *)
(* points at zone centres, inside, and outside.                            *)

\* The longest zone list supplied
MaxZones == 2

\* home and yard share a centre; bench has a radius of one metre; the last
\* zone carries the sentinel as its name (zone names are free text)
GeoZones ==
    {[name |-> "home", lat |-> 41, lng |-> 51, radius |-> 200],
     [name |-> "yard", lat |-> 41, lng |-> 51, radius |-> 100],
     [name |-> "bench", lat |-> 141, lng |-> 51, radius |-> 1],
     [name |-> UNKNOWN_AREA, lat |-> 241, lng |-> 51, radius |-> 50]}

\* Lists without repetition of at most MaxZones zones
GeoZoneLists ==
    {zs \in UNION {[1..n -> GeoZones] : n \in 0..MaxZones} :
        \A i, j \in DOMAIN zs : i # j => zs[i] # zs[j]}

GeoPoints ==
    {HomePoint, NearHomePoint, FarPoint,
     [lat |-> 45, lng |-> 55],       \* 59 m from the home centre
     [lat |-> 142, lng |-> 51],      \* 11 m from the bench
     [lat |-> 241, lng |-> 51],      \* the centre of the last zone
     [lat |-> 341, lng |-> 51]}      \* in no zone

\* Both functions called with the same point and the same list
ResolveZone(pt, safe_zones) ==
    /\ pc = "idle"
    /\ last' = [op |-> "resolve", lat |-> pt.lat, lng |-> pt.lng,
                safe_zones |-> safe_zones,
                name |-> get_location_name(pt.lat, pt.lng, safe_zones),
                inside |-> is_in_safe_zone(pt.lat, pt.lng, safe_zones)]
    /\ pc' = "done"
    /\ UNCHANGED <<store, learner, contacts>>

GeoNext ==
    \/ \E pt \in GeoPoints, zs \in GeoZoneLists : ResolveZone(pt, zs)
    \/ Return

GeoSpec == Init /\ [][GeoNext]_vars

\* The positions in the supplied list of the zones that contain the point
Containing(lat, lng, zs) == {i \in 1..Len(zs) : InZone(lat, lng, zs[i])}

Least(S) == CHOOSE i \in S : \A j \in S : i <= j

\* C25: get_location_name returns the name of the first zone of the supplied
\* list that contains the point, and the sentinel iff no supplied zone
\* contains the point; is_in_safe_zone is true exactly when get_location_name
\* does not return the sentinel.
C25_FirstContainingZone ==
    last.op = "resolve" =>
        LET hits == Containing(last.lat, last.lng, last.safe_zones)
        IN  /\ hits # {} => last.name = last.safe_zones[Least(hits)].name
            /\ last.name = UNKNOWN_AREA <=> hits = {}
            /\ last.inside <=> last.name # UNKNOWN_AREA

\* An empty list is supplied and the point is given the name of a default zone
C25_EmptyListNamed ==
    /\ last.op = "resolve"
    /\ last.safe_zones = <<>>
    /\ last.name = "home"
    /\ last.inside

\* C26: for every zone of the supplied list with radius > 0, a point exactly
\* at the zone's centre is inside: is_in_safe_zone is true, whatever the
\* zone's position in the list and whatever the other zones are.
C26_CentreIsInside ==
    last.op = "resolve" =>
        \A i \in 1..Len(last.safe_zones) :
            (/\ last.safe_zones[i].radius > 0
             /\ last.lat = last.safe_zones[i].lat
             /\ last.lng = last.safe_zones[i].lng) => last.inside

\* The point is the centre of the one-metre zone, which comes second in the
\* list after a zone that does not contain the point
C26_Witness ==
    /\ last.op = "resolve"
    /\ Len(last.safe_zones) = 2
    /\ last.safe_zones[2].name = "bench"
    /\ last.lat = 141 /\ last.lng = 51
    /\ ~InZone(last.lat, last.lng, last.safe_zones[1])
    /\ last.inside

---------------------------------------------------------------------------
(* Learned-range specification: learn runs that use the deterministic      *)
(* fallback, over windows of ten valid samples with means below 50, inside *)
(* 50..120 and above 120, followed by evaluations of the subject.          *)

RangeWindows ==
    {Summary(10, 750, 80, 1250, 800),     \* 59.0 .. 91.0
     Summary(10, 720, 0, 1250, 800),      \* ten samples of 72
     Summary(10, 400, 0, 1100, 700),      \* ten samples of 40
     Summary(10, 1300, 0, 1300, 850),     \* ten samples of 130
     Summary(10, 450, 20, 1100, 700)}     \* 41.0 .. 49.0

RangeRecords(u) ==
    {Rec(u, hr, 120, 80, 0, HomePoint.lat, HomePoint.lng, 10) :
        hr \in {20, 40, 45, 50, 72, 120, 125, 130, 250}}

RangeNext ==
    \/ \E u \in Users, w \in RangeWindows,
          llm \in {[kind |-> "no_client"], [kind |-> "error"]} :
          trigger_baseline_learning(u, w, llm, 1)
    \/ \E u \in Users : \E r \in RangeRecords(u) : Evaluate(r, {})
    \/ Return

RangeSpec == Init /\ [][RangeNext]_vars

\* C28: after a learn run that used the deterministic fallback the stored
\* profile has learned_hr_low < learned_hr_high, and some heart rate from 20
\* to 250 is judged normal by the heart-rate analyzer for that subject.
C28_LearnedRangeWellFormed ==
    (Learned /\ last.llm.kind # "reply") =>
        LET u == last.user_id
            p == profiles[u]
        IN  /\ p.learned_hr_low < p.learned_hr_high
            /\ \E hr \in 20..250 :
                   ~analyze_heart_rate(hr, u, EmptyCache, {}).is_anomaly

\* Ten samples of 40 bpm: the learned range is 50.0 .. 40.0, and a heart rate
\* of 45 is judged too high against the subject's own baseline
C28_InvertedRange ==
    /\ Evaluated
    /\ profiles[last.user_id] # None
    /\ profiles[last.user_id].learned_hr_low = 500
    /\ profiles[last.user_id].learned_hr_high = 400
    /\ last.record.heart_rate = 45
    /\ last.result.heart_rate_analysis.using_ai_baseline
    /\ last.result.heart_rate_analysis.is_anomaly

---------------------------------------------------------------------------
(* Snapshot specification.  comprehensive_analysis queries the profile in  *)
(* analyze_heart_rate and, unless that query found and cached a row, once  *)
(* more in get_baseline_context.  The two queries are two statements of    *)
(* the request's session; a learn run of another request can commit        *)
(* between them.                                                           *)

\* The call up to the heart-rate analyzer's return
AnalyzeVitals(record) ==
    /\ pc = "idle"
    /\ pc' = "analyzing"
    /\ last' = [op |-> "analysis", user_id |-> record.user_id, record |-> record,
                hr_result |-> analyze_heart_rate(record.heart_rate, record.user_id,
                                                 EmptyCache, {}),
                cache |-> _get_health_profile(record.user_id, EmptyCache, FALSE).cache]
    /\ UNCHANGED <<store, learner, contacts>>

\* The rest of the call, on the store as it is now
AnalyzeContext ==
    /\ pc = "analyzing"
    /\ pc' = "done"
    /\ last' = [op |-> "analysis", user_id |-> last.user_id, record |-> last.record,
                result |-> AnalysisFrom(last.record, last.hr_result, last.cache, {})]
    /\ UNCHANGED <<store, learner, contacts>>

SnapshotRecords(u) ==
    {Rec(u, 95, 120, 80, 0, HomePoint.lat, HomePoint.lng, 10),
     Rec(u, 72, 120, 80, 0, HomePoint.lat, HomePoint.lng, 10)}

SnapshotNext ==
    \/ \E u \in Users : \E r \in SnapshotRecords(u) : AnalyzeVitals(r)
    \/ AnalyzeContext
    \/ Return
    \/ \E r \in RunIds, u \in Users, w \in ConcurrentWindows : LearnBegin(r, u, w)
    \/ \E r \in RunIds, llm \in {[kind |-> "no_client"], FullReply} : LearnQuery(r, llm)
    \/ \E r \in RunIds : LearnCommit(r, 1)
    \/ \E r \in RunIds : LearnRespond(r)

SnapshotSpec == Init /\ [][SnapshotNext]_vars

\* C29: in every result of comprehensive_analysis, using_ai_baseline is true
\* iff baseline_context.has_profile is true and
\* baseline_context.confidence_score > 0.3, and when it is true the limits
\* the heart-rate analyzer used are baseline_context.learned_hr_low and
\* learned_hr_high, also when a learn run commits during the call.
C29_VerdictAndContextAgree ==
    (last.op = "analysis" /\ pc = "done" /\ ~last.result.raised) =>
        LET r == last.result
            ctx == r.baseline_context
        IN  /\ r.using_ai_baseline <=> (ctx.has_profile /\ ctx.confidence_score > 30)
            /\ r.using_ai_baseline =>
                   /\ r.heart_rate_analysis.hr_low = ctx.learned_hr_low
                   /\ r.heart_rate_analysis.hr_high = ctx.learned_hr_high

\* The heart rate was judged against the default limits while the context of
\* the same result shows a trusted profile with other limits
C29_ContextFromLaterProfile ==
    /\ last.op = "analysis" /\ pc = "done"
    /\ ~last.result.using_ai_baseline
    /\ last.result.heart_rate_analysis.hr_high = 100 * 10
    /\ ~last.result.heart_rate_analysis.is_anomaly
    /\ last.result.baseline_context.has_profile
    /\ last.result.baseline_context.confidence_score = 50
    /\ last.result.baseline_context.learned_hr_high = 910
    /\ last.record.heart_rate = 95

---------------------------------------------------------------------------
(* Emergency contacts: POST /contacts, DELETE /contacts/{id} and           *)
(* PUT /contacts/{id}/set-primary, one request at a time.  A row is        *)
(* [id, user_id, is_primary]; name, phone and relation are written once by *)
(* add_contact and read by no handler's condition.                         *)

\* The most rows the table holds
MaxContacts == 3
ContactIds == 1..MaxContacts

\* The rows of one user
OfUser(rows, user_id) == {c \in rows : c.user_id = user_id}

\* session.get(EmergencyContact, contact_id): the set is empty for no row
ById(contact_id) == {c \in contacts : c.id = contact_id}

\* Mutant: the primary flag of the other contacts is left as it is
Demote_Nothing(rows, user_id) == rows

\* "cancel the primary status of the other contacts": every row of the user
\* with is_primary == True gets is_primary = False
Demote(rows, user_id) ==
    {IF c.user_id = user_id /\ c.is_primary THEN [c EXCEPT !.is_primary = FALSE] ELSE c :
        c \in rows}

\* The data store gives the new row a primary key no row has
add_contact(user_id) ==
    /\ pc = "idle"
    /\ \E id \in ContactIds \ {c.id : c \in contacts} :
          contacts' = contacts \cup
              {[id |-> id, user_id |-> user_id,
                is_primary |-> OfUser(contacts, user_id) = {}]}
    /\ last' = [op |-> "add_contact", user_id |-> user_id, status_code |-> 200]
    /\ pc' = "done"
    /\ UNCHANGED <<store, learner>>

\* .first() of a query without ORDER BY is any of the user's remaining rows
delete_contact(user_id, contact_id) ==
    /\ pc = "idle"
    /\ IF ById(contact_id) = {}
       THEN /\ UNCHANGED contacts
            /\ last' = [op |-> "delete_contact", user_id |-> user_id,
                        status_code |-> 404]
       ELSE \E contact \in ById(contact_id) :
              IF contact.user_id # user_id
              THEN /\ UNCHANGED contacts
                   /\ last' = [op |-> "delete_contact", user_id |-> user_id,
                               status_code |-> 403]
              ELSE LET rest == contacts \ {contact}
                   IN  /\ IF contact.is_primary /\ OfUser(rest, user_id) # {}
                          THEN \E next_contact \in OfUser(rest, user_id) :
                                  contacts' = (rest \ {next_contact}) \cup
                                      {[next_contact EXCEPT !.is_primary = TRUE]}
                          ELSE contacts' = rest
                       /\ last' = [op |-> "delete_contact", user_id |-> user_id,
                                   status_code |-> 200,
                                   was_primary |-> contact.is_primary]
    /\ pc' = "done"
    /\ UNCHANGED <<store, learner>>

set_primary_contact(user_id, contact_id) ==
    /\ pc = "idle"
    /\ IF ById(contact_id) = {}
       THEN /\ UNCHANGED contacts
            /\ last' = [op |-> "set_primary_contact", user_id |-> user_id,
                        status_code |-> 404]
       ELSE \E contact \in ById(contact_id) :
              IF contact.user_id # user_id
              THEN /\ UNCHANGED contacts
                   /\ last' = [op |-> "set_primary_contact", user_id |-> user_id,
                               status_code |-> 403]
              ELSE /\ contacts' =
                          {IF c.id = contact_id THEN [c EXCEPT !.is_primary = TRUE] ELSE c :
                              c \in Demote(contacts, user_id)}
                   /\ last' = [op |-> "set_primary_contact", user_id |-> user_id,
                               status_code |-> 200,
                               was_primary |-> contact.is_primary]
    /\ pc' = "done"
    /\ UNCHANGED <<store, learner>>

ContactNext ==
    \/ \E u \in Users : add_contact(u)
    \/ \E u \in Users, id \in ContactIds : delete_contact(u, id)
    \/ \E u \in Users, id \in ContactIds : set_primary_contact(u, id)
    \/ Return

ContactSpec == Init /\ [][ContactNext]_vars

Primaries(rows, user_id) == {c \in OfUser(rows, user_id) : c.is_primary}

ContactRequest(op) == op \in {"add_contact", "delete_contact", "set_primary_contact"}

\* C30: after every add_contact, delete_contact and set_primary_contact
\* request, handled one at a time from an empty table, a user with at least
\* one contact has exactly one primary contact and no user has more than
\* one; and a request changes no row of another user.
C30_ExactlyOnePrimary ==
    [][/\ \A u \in Users :
            /\ Cardinality(Primaries(contacts', u)) <= 1
            /\ OfUser(contacts', u) # {} => Cardinality(Primaries(contacts', u)) = 1
       /\ (pc = "idle" /\ ContactRequest(last'.op)) =>
            \A v \in Users \ {last'.user_id} : OfUser(contacts', v) = OfUser(contacts, v)]_vars

\* The primary contact was deleted, two contacts of the user remain, and one
\* of them has become the primary
C30_Witness ==
    /\ last.op = "delete_contact"
    /\ last.status_code = 200
    /\ last.was_primary
    /\ Cardinality(OfUser(contacts, last.user_id)) = 2
    /\ Cardinality(Primaries(contacts, last.user_id)) = 1

====
